---------------------------- MODULE Spec2Model ----------------------------
(***************************************************************************)
(* A model of uv-outdated (src/src/uv_outdated): the lockfile graph        *)
(* builder, the manifest reader, the resolver and metadata collaborators,  *)
(* the constraint evaluator, the ancestor search and the cli pipeline.     *)
(*                                                                         *)
(* Text is a sequence of one-character strings, so that parsing and        *)
(* canonicalisation are computed rather than assumed:                      *)
(*     "Django_CORS"  is  <<"D","j","a","n","g","o","_","C","O","R","S">>   *)
(* Exception class names and message fragments are never parsed by the     *)
(* code and stay TLA+ strings.                                             *)
(*                                                                         *)
(* A call that may raise returns a record: [ok |-> TRUE, val |-> v] or     *)
(* [ok |-> FALSE, exc |-> <exception class>, msg |-> <message fragments>]. *)
(***************************************************************************)
EXTENDS Integers, Sequences, FiniteSets, TLC

VARIABLES
    uv,                 \* what `uv pip list --outdated --format=json` answers
    lock,               \* the file uv.lock
    pyproject,          \* the file pyproject.toml
    site,               \* what `uv python find`, pyvenv.cfg and site-packages hold
    flags,              \* cli options
    packaging,          \* the release of the packaging library the interpreter imports
    pc,                 \* position of the running operation
    outdated,           \* cli: result of get_uv_outdated
    packages,           \* the graph: result of get_locked_packages_and_deps
    direct,             \* result of get_direct_dependencies
    specifiers,         \* result of get_package_specifiers
    outdated_packages,  \* cli: the qualifying list
    dependency_groups,  \* cli: result of group_packages_by_dependency_groups
    calls,              \* cli: how often each collaborator was called, each file read
    console,            \* cli: what was printed
    exc,                \* the exception that ended the operation, or NoVal
    target,             \* find_direct_ancestors: package_name
    queue,              \* find_direct_ancestors: work queue
    visited,            \* find_direct_ancestors: visited set
    ancestors,          \* find_direct_ancestors: found ancestors
    arg,                \* arguments of a pure function under check
    ret                 \* value returned by the operation under check

envVars == <<uv, lock, pyproject, site, flags, packaging>>
cliVars == <<outdated, packages, direct, specifiers, outdated_packages, dependency_groups,
             calls, console>>
fdaVars == <<target, queue, visited, ancestors>>
vars == <<uv, lock, pyproject, site, flags, packaging, pc, outdated, packages, direct,
          specifiers, outdated_packages, dependency_groups, calls, console, exc,
          target, queue, visited, ancestors, arg, ret>>

\* The value of a variable the running operation does not use.
NoVal == [none |-> TRUE]

\* utils.py imports packaging and the source tree pins no release of it.
\* Two releases answer differently where a specifier set repeats a clause
\* and where "<" or ">" meets a pre-release or a post-release: 26.0 and
\* 26.2.  The release is fixed when the interpreter starts and no
\* operation changes it: the variable packaging holds it, and every
\* operator that reaches a call of packaging.specifiers takes it as its
\* last parameter, rel.
PackagingReleases == {"26.0", "26.2"}

\* The release under which the operations start whose inputs hold no
\* repeated clause and no "<" or ">" next to a pre-release or a
\* post-release: on those inputs the two releases give the same states.
EitherRelease == "26.0"

Ok(v) == [ok |-> TRUE, val |-> v]

Raise(e, m) == [ok |-> FALSE, exc |-> e, msg |-> m]

\* The least element of a set of positions, 0 for the empty set.
FirstIndex(S) == IF S = {} THEN 0 ELSE CHOOSE i \in S : \A j \in S : i <= j

\* A sequence of calls evaluated in order: the first error raised, or
\* Ok(the values).
AllOk(results) ==
    IF FirstIndex({i \in DOMAIN results : ~results[i].ok}) # 0
    THEN results[FirstIndex({i \in DOMAIN results : ~results[i].ok})]
    ELSE Ok([i \in DOMAIN results |-> results[i].val])

(***************************************************************************)
(* Text                                                                    *)
(***************************************************************************)
UpperChars == <<"A","B","C","D","E","F","G","H","I","J","K","L","M",
                "N","O","P","Q","R","S","T","U","V","W","X","Y","Z">>

LowerChars == <<"a","b","c","d","e","f","g","h","i","j","k","l","m",
                "n","o","p","q","r","s","t","u","v","w","x","y","z">>

DigitChars == <<"0","1","2","3","4","5","6","7","8","9">>

Range(s) == {s[i] : i \in DOMAIN s}

IsUpper(c) == c \in Range(UpperChars)

IsLower(c) == c \in Range(LowerChars)

IsDigit(c) == c \in Range(DigitChars)

IsSpace(c) == c = " "

\* str.lower() on one character.
LowerChar(c) ==
    IF IsUpper(c)
    THEN LowerChars[CHOOSE i \in DOMAIN UpperChars : UpperChars[i] = c]
    ELSE c

\* int() of one decimal digit.
DigitVal(c) == (CHOOSE i \in DOMAIN DigitChars : DigitChars[i] = c) - 1

\* The characters of the class [-_.] that canonicalize_name collapses.
IsSep(c) == c \in {"-", "_", "."}

RECURSIVE DropWhileSep(_)
DropWhileSep(s) ==
    IF s # <<>> /\ IsSep(Head(s)) THEN DropWhileSep(Tail(s)) ELSE s

\* packaging.utils.canonicalize_name: re.sub(r"[-_.]+", "-", name).lower()
RECURSIVE canonicalize_name(_)
canonicalize_name(name) ==
    IF name = <<>> THEN <<>>
    ELSE IF IsSep(Head(name))
         THEN <<"-">> \o canonicalize_name(DropWhileSep(Tail(name)))
         ELSE <<LowerChar(Head(name))>> \o canonicalize_name(Tail(name))

RECURSIVE LStrip(_)
LStrip(s) == IF s # <<>> /\ IsSpace(Head(s)) THEN LStrip(Tail(s)) ELSE s

RECURSIVE RStrip(_)
RStrip(s) ==
    IF s # <<>> /\ IsSpace(s[Len(s)])
    THEN RStrip(SubSeq(s, 1, Len(s) - 1))
    ELSE s

\* str.strip()
Strip(s) == RStrip(LStrip(s))

\* The index of the first occurrence of character c in s, 0 if there is none.
IndexOf(s, c) ==
    IF c \in Range(s) THEN CHOOSE i \in DOMAIN s : s[i] = c /\ \A j \in 1..(i - 1) : s[j] # c
    ELSE 0

\* str.split(c) for a one-character separator: the pieces, empty ones kept.
RECURSIVE SplitOn(_, _)
SplitOn(s, c) ==
    LET SplitAt(i) ==
            IF i = 0 THEN <<s>>
            ELSE <<SubSeq(s, 1, i - 1)>> \o SplitOn(SubSeq(s, i + 1, Len(s)), c)
    IN  SplitAt(IndexOf(s, c))

\* str.split() without argument: the maximal runs of non-space characters.
RECURSIVE SplitWhitespace(_)
SplitWhitespace(s) ==
    LET SplitWords(t, i) ==
            IF t = <<>> THEN <<>>
            ELSE IF i = 0 THEN <<t>>
            ELSE <<SubSeq(t, 1, i - 1)>> \o SplitWhitespace(SubSeq(t, i + 1, Len(t)))
    IN  SplitWords(LStrip(s), IndexOf(LStrip(s), " "))

\* sep.join(parts)
RECURSIVE Join(_, _)
Join(parts, sep) ==
    IF parts = <<>> THEN <<>>
    ELSE IF Len(parts) = 1 THEN parts[1]
    ELSE parts[1] \o sep \o Join(Tail(parts), sep)

StartsWith(s, p) == Len(s) >= Len(p) /\ SubSeq(s, 1, Len(p)) = p

\* The characters of the modelled texts in code-point order.
CodePointOrder ==
    <<" ", "!", "\"", "'", ",", "-", ".", "/">> \o DigitChars \o <<";", "<", "=", ">">>
    \o UpperChars \o <<"_">> \o LowerChars \o <<"~">>

CodePoint(c) == CHOOSE i \in DOMAIN CodePointOrder : CodePointOrder[i] = c

\* a < b for str: the first differing character decides, a prefix is smaller.
RECURSIVE TextLess(_, _)
TextLess(a, b) ==
    IF b = <<>> THEN FALSE
    ELSE IF a = <<>> THEN TRUE
    ELSE IF Head(a) # Head(b) THEN CodePoint(Head(a)) < CodePoint(Head(b))
    ELSE TextLess(Tail(a), Tail(b))

\* sorted(S) for a set of str.
RECURSIVE SortedTexts(_)
SortedTexts(S) ==
    IF S = {} THEN <<>>
    ELSE LET m == CHOOSE x \in S : \A y \in S \ {x} : TextLess(x, y)
         IN  <<m>> \o SortedTexts(S \ {m})

\* The index of the first occurrence of p in s, 0 if none.
FindText(s, p) ==
    FirstIndex({i \in 1..(Len(s) - Len(p) + 1) : SubSeq(s, i, i + Len(p) - 1) = p})

\* s.split(p) for a non-empty separator p.
RECURSIVE SplitText(_, _)
SplitText(s, p) ==
    LET SplitTextAt(k) ==
            IF k = 0 THEN <<s>>
            ELSE <<SubSeq(s, 1, k - 1)>> \o SplitText(SubSeq(s, k + Len(p), Len(s)), p)
    IN  SplitTextAt(FindText(s, p))

\* s.strip(chars)
RECURSIVE StripChars(_, _)
StripChars(s, chars) ==
    IF s # <<>> /\ Head(s) \in chars THEN StripChars(Tail(s), chars)
    ELSE IF s # <<>> /\ s[Len(s)] \in chars THEN StripChars(SubSeq(s, 1, Len(s) - 1), chars)
    ELSE s

(***************************************************************************)
(* packaging.version.Version                                               *)
(*                                                                         *)
(* VERSION_PATTERN, matched case-insensitively between optional            *)
(* whitespace:  v? (N!)? N(.N)*  pre?  post?  dev?  with                   *)
(*   pre  = [-_.]? (alpha|a|beta|b|preview|pre|c|rc) [-_.]? N?             *)
(*   post = -N  |  [-_.]? (post|rev|r) [-_.]? N?                           *)
(*   dev  = [-_.]? dev [-_.]? N?                                           *)
(* A local version (+label) and the wildcard "==1.*" need the characters   *)
(* "+" and "*", which the modelled texts do not contain.                   *)
(***************************************************************************)
RECURSIVE DecimalValue(_)
DecimalValue(digits) ==
    IF digits = <<>> THEN 0
    ELSE 10 * DecimalValue(SubSeq(digits, 1, Len(digits) - 1)) + DigitVal(digits[Len(digits)])

\* str.isdigit()
IsNumeral(seg) == seg # <<>> /\ \A i \in DOMAIN seg : IsDigit(seg[i])

\* str(n) for an int n >= 0.
RECURSIVE IntText(_)
IntText(n) ==
    IF n < 10 THEN <<DigitChars[n + 1]>>
    ELSE IntText(n \div 10) \o <<DigitChars[(n % 10) + 1]>>

\* str.lower()
Lower(s) == [i \in DOMAIN s |-> LowerChar(s[i])]

\* The character of s at position i, "" past either end.
At(s, i) == IF i \in DOMAIN s THEN s[i] ELSE ""

\* s.startswith(p, i - 1)
StartsAt(s, i, p) == i >= 1 /\ i + Len(p) - 1 <= Len(s) /\ SubSeq(s, i, i + Len(p) - 1) = p

\* The number of digits of s from position i on: the match of [0-9]*.
RECURSIVE DigitRun(_, _)
DigitRun(s, i) == IF IsDigit(At(s, i)) THEN 1 + DigitRun(s, i + 1) ELSE 0

\* int() of the digits of s from position i on.
NumberAt(s, i) == DecimalValue(SubSeq(s, i, i + DigitRun(s, i) - 1))

\* The position after the match of [ \t]* at position i.
RECURSIVE SkipWS(_, _)
SkipWS(s, i) == IF IsSpace(At(s, i)) THEN SkipWS(s, i + 1) ELSE i

\* The position after the match of [-_.]? at position i.
SkipSep(s, i) == IF IsSep(At(s, i)) THEN i + 1 ELSE i

\* The position after the match of [0-9]+(\.[0-9]+)* that starts at i.
RECURSIVE ReleaseEnd(_, _)
ReleaseEnd(s, i) ==
    LET AfterSegment(q) ==
            IF At(s, q) = "." /\ DigitRun(s, q + 1) > 0 THEN ReleaseEnd(s, q + 1) ELSE q
    IN  AfterSegment(i + DigitRun(s, i))

\* tuple(map(int, release.split(".")))
ReleaseOf(t) ==
    LET DecimalValues(segs) == [i \in DOMAIN segs |-> DecimalValue(segs[i])]
    IN  DecimalValues(SplitOn(t, "."))

\* The spellings of the pre-release letter in the order the pattern tries
\* them, and what _LETTER_NORMALIZATION makes of each: a, b or rc, held as
\* the rank _PRE_RANK gives it.
PreLetters == << <<"a", "l", "p", "h", "a">>, <<"a">>, <<"b", "e", "t", "a">>, <<"b">>, <<"p", "r", "e", "v", "i", "e", "w">>, <<"p", "r", "e">>, <<"c">>, <<"r", "c">> >>

PreRanks == <<0, 0, 1, 1, 2, 2, 2, 2>>

PreNames == << <<"a">>, <<"b">>, <<"r", "c">> >>

PostLetters == << <<"p", "o", "s", "t">>, <<"r", "e", "v">>, <<"r">> >>

DevLetters == << <<"d", "e", "v">> >>

\* [-_.]? letter [-_.]? [0-9]*  at position p of s: k is the index of the
\* letter in letters (0: no match, and end = p), n the number (0 if absent).
LetterNumbered(s, k, q) == [k |-> k, n |-> NumberAt(s, q), end |-> q + DigitRun(s, q)]

LetterFound(s, p, letters, k, q) ==
    IF k = 0 THEN [k |-> 0, n |-> 0, end |-> p]
    ELSE LetterNumbered(s, k, SkipSep(s, q + Len(letters[k])))

LetterAt(s, p, letters, q) ==
    LetterFound(s, p, letters,
                FirstIndex({k \in DOMAIN letters : StartsAt(s, q, letters[k])}), q)

LetterPart(s, p, letters) == LetterAt(s, p, letters, SkipSep(s, p))

\* The match of VERSION_PATTERN at position p of a lower-case text s:
\* [ok |-> FALSE] if there is none, else where it ends and its groups as
\* _parse_letter_version reads them.  pre is <<>> or <<rank, n>>, post and
\* dev are <<>> or <<n>>.
VersionScanned(epoch, release, pre, post, d) ==
    [ok |-> TRUE, end |-> d.end, epoch |-> epoch, release |-> release, pre |-> pre,
     post |-> post, dev |-> IF d.k = 0 THEN <<>> ELSE <<d.n>>]

VersionDev(s, epoch, release, pre, post, q) ==
    VersionScanned(epoch, release, pre, post, LetterPart(s, q, DevLetters))

VersionPost(s, epoch, release, pre, q, l, dash) ==      \* dash: the post-release is -N
    VersionDev(s, epoch, release, pre,
               IF dash THEN <<NumberAt(s, q + 1)>> ELSE IF l.k = 0 THEN <<>> ELSE <<l.n>>,
               IF dash THEN q + 1 + DigitRun(s, q + 1) ELSE l.end)

VersionPre(s, epoch, release, l) ==
    VersionPost(s, epoch, release, IF l.k = 0 THEN <<>> ELSE <<PreRanks[l.k], l.n>>, l.end,
                LetterPart(s, l.end, PostLetters),
                At(s, l.end) = "-" /\ DigitRun(s, l.end + 1) > 0)

VersionRelease(s, epoch, q, e) ==
    VersionPre(s, epoch, ReleaseOf(SubSeq(s, q, e - 1)), LetterPart(s, e, PreLetters))

VersionEpoch(s, q, d) ==                                \* d: the digits at q
    IF d > 0 /\ At(s, q + d) = "!" /\ DigitRun(s, q + d + 1) > 0
    THEN [epoch |-> NumberAt(s, q), at |-> q + d + 1]
    ELSE [epoch |-> 0, at |-> q]

VersionFrom(s, e) ==
    IF DigitRun(s, e.at) = 0 THEN [ok |-> FALSE]
    ELSE VersionRelease(s, e.epoch, e.at, ReleaseEnd(s, e.at))

VersionStart(s, q) == VersionFrom(s, VersionEpoch(s, q, DigitRun(s, q)))

VersionScan(s, p) == VersionStart(s, IF At(s, p) = "v" THEN p + 1 ELSE p)

\* Version(text): [epoch, release, pre, post, dev], or InvalidVersion.
VersionFullMatch(v, n) ==
    IF v.ok /\ v.end = n + 1
    THEN Ok([epoch |-> v.epoch, release |-> v.release, pre |-> v.pre,
             post |-> v.post, dev |-> v.dev])
    ELSE Raise("InvalidVersion", <<"Invalid version">>)

VersionOf(t) == VersionFullMatch(VersionScan(Lower(t), 1), Len(t))

Version(text) == VersionOf(Strip(text))

\* Version.is_prerelease
is_prerelease(v) == v.dev # <<>> \/ v.pre # <<>>

\* Version.is_postrelease
is_postrelease(v) == v.post # <<>>

Seg(r, i) == IF i <= Len(r) THEN r[i] ELSE 0

MaxOf(a, b) == IF a >= b THEN a ELSE b

\* Comparison of two release tuples, the shorter one padded with zeros
\* (_cmpkey drops trailing zeros): -1, 0 or 1.
CmpRelease(a, b) ==
    LET CmpAt(k) == IF k = 0 THEN 0 ELSE IF Seg(a, k) < Seg(b, k) THEN -1 ELSE 1
    IN  CmpAt(FirstIndex({i \in 1..MaxOf(Len(a), Len(b)) : Seg(a, i) # Seg(b, i)}))

\* The suffix of _cmpkey: (pre_rank, pre_n, post_rank, post_n, dev_rank, dev_n).
CmpSuffix(v) ==
    << IF v.pre # <<>> THEN v.pre[1]
       ELSE IF v.post = <<>> /\ v.dev # <<>> THEN -1 ELSE 3,
       IF v.pre # <<>> THEN v.pre[2] ELSE 0,
       IF v.post = <<>> THEN 0 ELSE 1,
       IF v.post = <<>> THEN 0 ELSE v.post[1],
       IF v.dev = <<>> THEN 1 ELSE 0,
       IF v.dev = <<>> THEN 0 ELSE v.dev[1] >>

\* Comparison of two versions by _cmpkey = (epoch, release, suffix): -1, 0 or 1.
CmpVersion(a, b) ==
    LET Suffixes(c) == IF c # 0 THEN c ELSE CmpRelease(CmpSuffix(a), CmpSuffix(b))
    IN  IF a.epoch # b.epoch THEN (IF a.epoch < b.epoch THEN -1 ELSE 1)
        ELSE Suffixes(CmpRelease(a.release, b.release))

\* str(Version): the normalised spelling.
VersionStr(v) ==
    (IF v.epoch # 0 THEN IntText(v.epoch) \o <<"!">> ELSE <<>>)
    \o Join([i \in DOMAIN v.release |-> IntText(v.release[i])], <<".">>)
    \o (IF v.pre = <<>> THEN <<>> ELSE PreNames[v.pre[1] + 1] \o IntText(v.pre[2]))
    \o (IF v.post = <<>> THEN <<>> ELSE <<".", "p", "o", "s", "t">> \o IntText(v.post[1]))
    \o (IF v.dev = <<>> THEN <<>> ELSE <<".", "d", "e", "v">> \o IntText(v.dev[1]))

\* _TrimmedRelease.release: trailing zeros dropped, one segment always kept.
RECURSIVE TrimmedRelease(_)
TrimmedRelease(release) ==
    IF Len(release) > 1 /\ release[Len(release)] = 0
    THEN TrimmedRelease(SubSeq(release, 1, Len(release) - 1))
    ELSE release

\* packaging.utils.canonicalize_version for a str: an invalid version is
\* returned unaltered.
canonicalize_version(version, strip_trailing_zero) ==
    LET Canonical(v) ==
            IF ~v.ok THEN version
            ELSE VersionStr([v.val EXCEPT !.release = IF strip_trailing_zero
                                                      THEN TrimmedRelease(v.val.release)
                                                      ELSE v.val.release])
    IN  Canonical(Version(version))

(***************************************************************************)
(* packaging.specifiers.Specifier and SpecifierSet                         *)
(***************************************************************************)
\* Specifier._operators, in the order of the dict.
OperatorTexts == << <<"~", "=">>, <<"=", "=">>, <<"!", "=">>, <<"<", "=">>,
                    <<">", "=">>, <<"<">>, <<">">>, <<"=", "=", "=">> >>

OperatorNames == << "~=", "==", "!=", "<=", ">=", "<", ">", "===" >>

\* The index in OperatorTexts of the operator that the text starts with at
\* position p, 0 if none: "===" before the two-character operators, these
\* before "<" and ">".
OperatorAt(s, p) ==
    IF StartsAt(s, p, OperatorTexts[8]) THEN 8
    ELSE FirstIndex({k \in 1..7 : StartsAt(s, p, OperatorTexts[k])})

\* The operator a clause starts with.
OperatorOf(t) == OperatorAt(t, 1)

InvalidSpecifier == Raise("InvalidSpecifier", <<"Invalid specifier">>)

\* The position after the match of [^\s;)]* at position i.
RECURSIVE ArbitraryEnd(_, _)
ArbitraryEnd(s, i) ==
    IF i \in DOMAIN s /\ s[i] \notin {" ", ";"} THEN ArbitraryEnd(s, i + 1) ELSE i

\* The position after the match of Specifier._specifier_regex_str at
\* position p of s, p itself if there is no match.  k is the operator at p,
\* q the position after the operator and \s*, v the version scanned there.
\* "~=" needs a release of two segments at least.
SpecifierVersionEnd(p, k, v) == IF v.ok /\ (k = 1 => Len(v.release) >= 2) THEN v.end ELSE p

SpecifierClauseEnd(s, p, k, q) ==
    IF k = 8 THEN ArbitraryEnd(s, q) ELSE SpecifierVersionEnd(p, k, VersionScan(Lower(s), q))

SpecifierOperatorEnd(s, p, k) ==
    IF k = 0 THEN p ELSE SpecifierClauseEnd(s, p, k, SkipWS(s, p + Len(OperatorTexts[k])))

SpecifierEnd(s, p) == SpecifierOperatorEnd(s, p, OperatorAt(s, p))

\* Specifier(text): [op, version, str], or InvalidSpecifier.  The regex must
\* match the whole text between optional whitespace; version is the text
\* after the operator as written, str(Specifier) is operator + version.
SpecifierWritten(k, version) ==
    Ok([op |-> OperatorNames[k], version |-> version, str |-> OperatorTexts[k] \o version])

SpecifierOf(t, k) ==
    IF k = 0 \/ SpecifierEnd(t, 1) # Len(t) + 1 THEN InvalidSpecifier
    ELSE SpecifierWritten(k, LStrip(SubSeq(t, Len(OperatorTexts[k]) + 1, Len(t))))

SpecifierStripped(t) == SpecifierOf(t, OperatorOf(t))

Specifier(text) == SpecifierStripped(Strip(text))

\* The clauses parsed in order: the first InvalidSpecifier, or Ok(clauses).
Specifiers(parts) == AllOk([i \in DOMAIN parts |-> Specifier(parts[i])])

\* The clauses of a specifier set: split on ",", stripped, empty pieces dropped.
SplitSpecifiers(text) ==
    LET StripAll(parts) == [i \in DOMAIN parts |-> Strip(parts[i])]
    IN  SelectSeq(StripAll(SplitOn(text, ",")), LAMBDA p : p # <<>>)

\* SpecifierSet(text): the sequence of parsed clauses, or InvalidSpecifier.
SpecifierSet(text) == Specifiers(SplitSpecifiers(text))

\* Specifier._canonical_spec: the operator and the normalised version, with
\* trailing zeros dropped unless the operator is "~=".
canonical_spec(clause) ==
    <<clause.op, IF clause.op = "===" THEN clause.version
                 ELSE canonicalize_version(clause.version, clause.op # "~=")>>

\* sorted(specs, key=str) for a set of clauses.
RECURSIVE SortedClauses(_)
SortedClauses(S) ==
    IF S = {} THEN <<>>
    ELSE LET m == CHOOSE x \in S : \A y \in S \ {x} : TextLess(x.str, y.str)
         IN  <<m>> \o SortedClauses(S \ {m})

\* dict.fromkeys(specs): of the clauses that are equal (same canonical
\* spec) the first one stays.
RECURSIVE FirstOfEach(_, _)
FirstOfEach(specs, seen) ==
    LET Kept(key) ==
            IF key \in seen THEN FirstOfEach(Tail(specs), seen)
            ELSE <<Head(specs)>> \o FirstOfEach(Tail(specs), seen \cup {key})
    IN  IF specs = <<>> THEN <<>> ELSE Kept(canonical_spec(Head(specs)))

\* SpecifierSet._specs, in the order __str__ writes it.  Release 26.2 sorts
\* the parsed clauses by their text and then drops the repeats; release
\* 26.0 builds frozenset(map(Specifier, parts)), in which the clause parsed
\* first stays, and sorts what is left.
SpecifierSetSpecs(clauses, rel) ==
    IF rel = "26.2" THEN FirstOfEach(SortedClauses(Range(clauses)), {})
    ELSE SortedClauses(Range(FirstOfEach(clauses, {})))

\* str(SpecifierSet): the clauses sorted by their text, equal ones merged,
\* joined by ",".
SpecifierSetStr(clauses, rel) ==
    LET Strs(kept) == [i \in DOMAIN kept |-> kept[i].str]
    IN  Join(Strs(SpecifierSetSpecs(clauses, rel)), <<",">>)

\* _prefix_regex.fullmatch(item): digits, one of a, b, c, rc, digits.  The
\* length of the leading digits if it matches, else 0.
PrefixDigits(item) ==
    LET LetterLen(d) ==
            IF StartsAt(item, d + 1, <<"r", "c">>) THEN 2
            ELSE IF At(item, d + 1) \in {"a", "b", "c"} THEN 1 ELSE 0
        Matched(d, l) ==
            IF d > 0 /\ l > 0 /\ IsNumeral(SubSeq(item, d + l + 1, Len(item))) THEN d ELSE 0
    IN  Matched(DigitRun(item, 1), LetterLen(DigitRun(item, 1)))

\* The index of the last occurrence of character c in s, 0 if there is none.
LastIndexOf(s, c) ==
    IF c \in Range(s) THEN CHOOSE i \in DOMAIN s : s[i] = c /\ \A j \in (i + 1)..Len(s) : s[j] # c
    ELSE 0

\* _version_split: the epoch ("0" if none), then the pieces between dots, a
\* piece such as 0rc1 cut in two.
version_split(version) ==
    LET Cut(item, d) ==
            IF d = 0 THEN <<item>> ELSE <<SubSeq(item, 1, d), SubSeq(item, d + 1, Len(item))>>
        Pieces(item) == Cut(item, PrefixDigits(item))
        AllPieces(items) ==
            LET RECURSIVE Flat(_)
                Flat(k) == IF k > Len(items) THEN <<>> ELSE Pieces(items[k]) \o Flat(k + 1)
            IN  Flat(1)
        EpochAndRest(b) ==
            <<IF b <= 1 THEN <<"0">> ELSE SubSeq(version, 1, b - 1)>>
            \o AllPieces(SplitOn(SubSeq(version, b + 1, Len(version)), "."))
    IN  EpochAndRest(LastIndexOf(version, "!"))

\* _is_not_suffix
is_not_suffix(segment) ==
    ~\E prefix \in {<<"d", "e", "v">>, <<"a">>, <<"b">>, <<"r", "c">>, <<"p", "o", "s", "t">>} : StartsWith(segment, prefix)

\* itertools.takewhile(_is_not_suffix, components)
RECURSIVE TakeWhileNotSuffix(_)
TakeWhileNotSuffix(components) ==
    IF components # <<>> /\ is_not_suffix(Head(components))
    THEN <<Head(components)>> \o TakeWhileNotSuffix(Tail(components))
    ELSE <<>>

\* _version_join
version_join(components) == Head(components) \o <<"!">> \o Join(Tail(components), <<".">>)

\* _numeric_prefix_len
RECURSIVE numeric_prefix_len(_)
numeric_prefix_len(split) ==
    IF split # <<>> /\ IsNumeral(Head(split)) THEN 1 + numeric_prefix_len(Tail(split)) ELSE 0

\* _left_pad
left_pad(split, target_numeric_len) ==
    LET Padded(numeric_len, pad_needed) ==
            IF pad_needed <= 0 THEN split
            ELSE SubSeq(split, 1, numeric_len) \o [i \in 1..pad_needed |-> <<"0">>]
                 \o SubSeq(split, numeric_len + 1, Len(split))
        Measured(numeric_len) == Padded(numeric_len, target_numeric_len - numeric_len)
    IN  Measured(numeric_prefix_len(split))

\* _compare_equal for the spec prefix + ".*": the prefix, normalised and
\* split, starts the prospective version, normalised, split and padded.
PrefixShortened(padded, split_spec) ==
    SubSeq(padded, 1, IF Len(padded) < Len(split_spec) THEN Len(padded)
                      ELSE Len(split_spec)) = split_spec

PrefixStartsSpec(prospective, split_spec) ==
    PrefixShortened(left_pad(version_split(VersionStr(prospective)),
                             numeric_prefix_len(split_spec)), split_spec)

compare_prefix(prospective, prefix) ==
    PrefixStartsSpec(prospective, version_split(canonicalize_version(prefix, FALSE)))

\* The prefix that _compare_compatible builds from the spec as written:
\* everything before the first suffix piece, less the last piece.
compatible_prefix(spec) ==
    LET AllButLast(kept) == SubSeq(kept, 1, Len(kept) - 1)
    IN  version_join(AllButLast(TakeWhileNotSuffix(version_split(spec))))

\* Version(a.base_version) == Version(b.base_version): the same epoch and
\* the same release segment.
SameBaseVersion(a, b) == a.epoch = b.epoch /\ CmpRelease(a.release, b.release) = 0

\* _compare_less_than, after `prospective < spec`: a pre-release is left
\* out when the spec version is none.  Release 26.2 leaves out the
\* pre-releases from spec.dev0 on, release 26.0 every pre-release with the
\* base version of the spec.
PreReleaseOfSpec(prospective, spec, rel) ==
    /\ ~is_prerelease(spec)
    /\ is_prerelease(prospective)
    /\ IF rel = "26.2"
       THEN CmpVersion(prospective, [spec EXCEPT !.dev = <<0>>]) >= 0
       ELSE SameBaseVersion(prospective, spec)

\* _compare_greater_than, after `prospective > spec`: a post-release is
\* left out when the spec version is none.  Release 26.2 leaves out the
\* post-releases of the spec version itself, release 26.0 every
\* post-release with the base version of the spec.
PostReleaseOfSpec(prospective, spec, rel) ==
    /\ ~is_postrelease(spec)
    /\ is_postrelease(prospective)
    /\ IF rel = "26.2"
       THEN CmpVersion([prospective EXCEPT !.post = <<>>, !.dev = <<>>], spec) = 0
       ELSE SameBaseVersion(prospective, spec)

\* The operator of one clause applied to a version (_compare_*).  spec is
\* the Version of the clause, c the comparison of the prospective version
\* with it.  "<" leaves out the pre-releases of the spec version, ">" its
\* post-releases, "===" compares the normalised spelling with the text.
ClauseVerdict(clause, prospective, spec, c, rel) ==
    CASE clause.op = "==" -> c = 0
      [] clause.op = "!=" -> c # 0
      [] clause.op = "<=" -> c <= 0
      [] clause.op = ">=" -> c >= 0
      [] clause.op = "<"  ->
            /\ c < 0
            /\ ~PreReleaseOfSpec(prospective, spec, rel)
      [] clause.op = ">"  ->
            /\ c > 0
            /\ ~PostReleaseOfSpec(prospective, spec, rel)
      [] clause.op = "~=" ->
            /\ c >= 0
            /\ compare_prefix(prospective, compatible_prefix(clause.version))

ClauseCompared(clause, prospective, spec, rel) ==
    ClauseVerdict(clause, prospective, spec, CmpVersion(prospective, spec), rel)

ClauseContains(clause, prospective, rel) ==
    IF clause.op = "===" THEN Lower(VersionStr(prospective)) = Lower(clause.version)
    ELSE ClauseCompared(clause, prospective, Version(clause.version).val, rel)

\* SpecifierSet.contains(version) for a Version and prereleases=None: the
\* one candidate passes the filter when every clause matches it, a
\* pre-release too (no final release competes with it).
SpecifierSetContains(clauses, prospective, rel) ==
    \A i \in DOMAIN clauses : ClauseContains(clauses[i], prospective, rel)

(***************************************************************************)
(* is_locked_by_specifier                                     utils.py:406 *)
(***************************************************************************)
\* `spec = specifiers.get(name)` followed by `if not spec`: None or "".
NoSpec(specs, name) == name \notin DOMAIN specs \/ specs[name] = <<>>

\* `return not spec_set.contains(latest)`
LockedVerdict_Unnegated(spec_set, latest, rel) == SpecifierSetContains(spec_set, latest, rel)

LockedVerdict(spec_set, latest, rel) == ~SpecifierSetContains(spec_set, latest, rel)

LockedBy(spec_set, latest, rel) ==                   \* the try block
    IF ~spec_set.ok THEN Ok(FALSE)              \* except InvalidSpecifier
    ELSE IF ~latest.ok THEN latest              \* InvalidVersion is not caught
    ELSE Ok(LockedVerdict(spec_set.val, latest.val, rel))

is_locked_by_specifier(specs, name, latest_version, rel) ==
    IF NoSpec(specs, name) THEN Ok(FALSE)
    ELSE LockedBy(SpecifierSet(specs[name]), Version(latest_version), rel)

(***************************************************************************)
(* packaging.requirements.Requirement: name, version specifier, marker,    *)
(* read by the tokenizer of packaging._parser.  Extras in brackets,        *)
(* parentheses, URLs and backslash escapes need characters that the        *)
(* modelled texts do not contain.                                          *)
(***************************************************************************)
IsAlnum(c) == IsUpper(c) \/ IsLower(c) \/ IsDigit(c)

IsNameChar(c) == IsAlnum(c) \/ IsSep(c)

\* \w of a regular expression.
IsWordChar(c) == IsAlnum(c) \/ c = "_"

\* \b at position i: exactly one of the characters before and at i is a
\* word character.
WordBoundary(s, i) == IsWordChar(At(s, i - 1)) # IsWordChar(At(s, i))

\* The length of the longest prefix of s made of name characters.
RECURSIVE NameRun(_)
NameRun(s) == IF s # <<>> /\ IsNameChar(Head(s)) THEN 1 + NameRun(Tail(s)) ELSE 0

\* The position after the match of IDENTIFIER, \b[a-zA-Z0-9][a-zA-Z0-9._-]*\b,
\* at position p; p itself if there is no match.  The closing \b gives back
\* the "-" and "." that end the run.
IdentifierEnd(s, p) ==
    LET RECURSIVE BackToWord(_)
        BackToWord(e) == IF IsWordChar(At(s, e - 1)) THEN e ELSE BackToWord(e - 1)
    IN  IF ~IsAlnum(At(s, p)) \/ ~WordBoundary(s, p) THEN p
        ELSE BackToWord(p + NameRun(SubSeq(s, p, Len(s))))

InvalidRequirement == Raise("InvalidRequirement", <<"Invalid requirement">>)

InvalidMarker == Raise("InvalidMarker", <<"Invalid marker">>)

\* _parse_version_many: SPECIFIER tokens separated by commas, from position
\* p on.  end is the position reached, text the tokens and commas read; a
\* comma may close the list.
RECURSIVE version_many(_, _)
version_many(s, p) ==
    LET Continued(e, r) ==
            [end |-> r.end, text |-> SubSeq(s, p, e - 1) \o <<",">> \o r.text]
        AfterToken(e, q) ==
            IF At(s, q) # "," THEN [end |-> q, text |-> SubSeq(s, p, e - 1)]
            ELSE Continued(e, version_many(s, SkipWS(s, q + 1)))
        TokenTo(e) ==
            IF e = p THEN [end |-> p, text |-> <<>>] ELSE AfterToken(e, SkipWS(s, e))
    IN  TokenTo(SpecifierEnd(s, p))

\* The specifier of a requirement, _parse_specifier up to the end of the
\* text: the specifier text handed to SpecifierSet, or a syntax error.
RequirementSpecifier(text) ==
    LET Parsed(r) ==
            IF SkipWS(text, r.end) # Len(text) + 1 THEN InvalidRequirement ELSE Ok(r.text)
    IN  Parsed(version_many(text, SkipWS(text, 1)))

\* \bword\b at position p.
WordAt(s, p, word) ==
    StartsAt(s, p, word) /\ WordBoundary(s, p) /\ WordBoundary(s, p + Len(word))

\* The names the token VARIABLE matches.
MarkerVariables ==
    { <<"p", "y", "t", "h", "o", "n", "_", "v", "e", "r", "s", "i", "o", "n">>, <<"p", "y", "t", "h", "o", "n", "_", "f", "u", "l", "l", "_", "v", "e", "r", "s", "i", "o", "n">>, <<"o", "s", ".", "n", "a", "m", "e">>, <<"o", "s", "_", "n", "a", "m", "e">>, <<"s", "y", "s", ".", "p", "l", "a", "t", "f", "o", "r", "m">>,
      <<"s", "y", "s", "_", "p", "l", "a", "t", "f", "o", "r", "m">>, <<"p", "l", "a", "t", "f", "o", "r", "m", "_", "r", "e", "l", "e", "a", "s", "e">>, <<"p", "l", "a", "t", "f", "o", "r", "m", "_", "s", "y", "s", "t", "e", "m">>, <<"p", "l", "a", "t", "f", "o", "r", "m", ".", "v", "e", "r", "s", "i", "o", "n">>,
      <<"p", "l", "a", "t", "f", "o", "r", "m", "_", "v", "e", "r", "s", "i", "o", "n">>, <<"p", "l", "a", "t", "f", "o", "r", "m", ".", "m", "a", "c", "h", "i", "n", "e">>, <<"p", "l", "a", "t", "f", "o", "r", "m", "_", "m", "a", "c", "h", "i", "n", "e">>,
      <<"p", "l", "a", "t", "f", "o", "r", "m", ".", "p", "y", "t", "h", "o", "n", "_", "i", "m", "p", "l", "e", "m", "e", "n", "t", "a", "t", "i", "o", "n">>, <<"p", "l", "a", "t", "f", "o", "r", "m", "_", "p", "y", "t", "h", "o", "n", "_", "i", "m", "p", "l", "e", "m", "e", "n", "t", "a", "t", "i", "o", "n">>,
      <<"p", "y", "t", "h", "o", "n", "_", "i", "m", "p", "l", "e", "m", "e", "n", "t", "a", "t", "i", "o", "n">>, <<"i", "m", "p", "l", "e", "m", "e", "n", "t", "a", "t", "i", "o", "n", "_", "n", "a", "m", "e">>, <<"i", "m", "p", "l", "e", "m", "e", "n", "t", "a", "t", "i", "o", "n", "_", "v", "e", "r", "s", "i", "o", "n">>,
      <<"e", "x", "t", "r", "a">>, <<"e", "x", "t", "r", "a", "s">>, <<"d", "e", "p", "e", "n", "d", "e", "n", "c", "y", "_", "g", "r", "o", "u", "p", "s">> }

\* process_env_var(text.replace(".", "_"))
process_env_var(text) ==
    LET Named(env_var) ==
            IF env_var = <<"p", "y", "t", "h", "o", "n", "_", "i", "m", "p", "l", "e", "m", "e", "n", "t", "a", "t", "i", "o", "n">> THEN <<"p", "l", "a", "t", "f", "o", "r", "m", "_", "p", "y", "t", "h", "o", "n", "_", "i", "m", "p", "l", "e", "m", "e", "n", "t", "a", "t", "i", "o", "n">>
            ELSE env_var
    IN  Named([i \in DOMAIN text |-> IF text[i] = "." THEN "_" ELSE text[i]])

\* _parse_marker_var at position p: a VARIABLE between word boundaries, or a
\* QUOTED_STRING that runs to the next quote of its kind.  [ok |-> FALSE]
\* for a syntax error, else the node and the position after it.
marker_var(s, p) ==
    LET Variable(w) ==
            [ok |-> TRUE, end |-> p + Len(w),
             node |-> [variable |-> TRUE, value |-> process_env_var(w)]]
        Quoted(k) ==        \* k: the offset of the closing quote, 0 if none
            IF k = 0 THEN [ok |-> FALSE]
            ELSE [ok |-> TRUE, end |-> p + k + 1,
                  node |-> [variable |-> FALSE, value |-> SubSeq(s, p + 1, p + k - 1)]]
        VarFrom(matching) ==
            IF matching # {} THEN Variable(CHOOSE w \in matching : TRUE)
            ELSE IF At(s, p) \in {"'", "\""}
            THEN Quoted(IndexOf(SubSeq(s, p + 1, Len(s)), s[p]))
            ELSE [ok |-> FALSE]
    IN  VarFrom({w \in MarkerVariables : WordAt(s, p, w)})

\* The token OP, in the order the alternation tries the operators.
MarkerOps == << <<"=", "=", "=">>, <<"=", "=">>, <<"~", "=">>, <<"!", "=">>, <<"<", "=">>,
                <<">", "=">>, <<"<">>, <<">">> >>

\* _parse_marker_op at position p: in, not in (whitespace between), or OP.
marker_op(s, p) ==
    LET OpAt(k) ==
            IF k = 0 THEN [ok |-> FALSE]
            ELSE [ok |-> TRUE, end |-> p + Len(MarkerOps[k]), op |-> MarkerOps[k]]
        NotIn(q) ==         \* q: the position after "not" and whitespace
            IF q > p + 3 /\ WordAt(s, q, <<"i", "n">>)
            THEN [ok |-> TRUE, end |-> q + 2, op |-> <<"n", "o", "t", " ", "i", "n">>]
            ELSE [ok |-> FALSE]
    IN  IF WordAt(s, p, <<"i", "n">>) THEN [ok |-> TRUE, end |-> p + 2, op |-> <<"i", "n">>]
        ELSE IF WordAt(s, p, <<"n", "o", "t">>) THEN NotIn(SkipWS(s, p + 3))
        ELSE OpAt(FirstIndex({k \in DOMAIN MarkerOps : StartsAt(s, p, MarkerOps[k])}))

\* _parse_marker_item at position p: marker_var, marker_op, marker_var, with
\* optional whitespace around each.
MarkerItemOf(s, l, o, r) ==
    IF ~r.ok THEN [ok |-> FALSE]
    ELSE [ok |-> TRUE, end |-> SkipWS(s, r.end),
          item |-> [lhs |-> l.node, op |-> o.op, rhs |-> r.node]]

MarkerAfterOp(s, l, o) ==
    IF ~o.ok THEN [ok |-> FALSE] ELSE MarkerItemOf(s, l, o, marker_var(s, SkipWS(s, o.end)))

MarkerAfterVar(s, l) ==
    IF ~l.ok THEN [ok |-> FALSE] ELSE MarkerAfterOp(s, l, marker_op(s, SkipWS(s, l.end)))

marker_item(s, p) == MarkerAfterVar(s, marker_var(s, SkipWS(s, p)))

\* _parse_marker at position p: marker_item (BOOLOP marker_item)*.  items
\* are the comparisons, boolops the "and" / "or" between them.
RECURSIVE parse_marker(_, _)
parse_marker(s, p) ==
    LET Joined(a, word, r) ==
            IF ~r.ok THEN [ok |-> FALSE]
            ELSE [ok |-> TRUE, end |-> r.end, items |-> <<a.item>> \o r.items,
                  boolops |-> <<word>> \o r.boolops]
        AfterItem(a) ==
            IF ~a.ok THEN [ok |-> FALSE]
            ELSE IF WordAt(s, a.end, <<"o", "r">>)
            THEN Joined(a, <<"o", "r">>, parse_marker(s, a.end + 2))
            ELSE IF WordAt(s, a.end, <<"a", "n", "d">>)
            THEN Joined(a, <<"a", "n", "d">>, parse_marker(s, a.end + 3))
            ELSE [ok |-> TRUE, end |-> a.end, items |-> <<a.item>>, boolops |-> <<>>]
    IN  AfterItem(marker_item(s, p))

\* _normalize_extras: a value compared with the variable `extra` is replaced
\* by canonicalize_name of it.
normalize_extras(item) ==
    LET Value(node) == [variable |-> FALSE, value |-> canonicalize_name(node.value)]
    IN  IF item.lhs.variable /\ item.lhs.value = <<"e", "x", "t", "r", "a">>
        THEN [item EXCEPT !.rhs = Value(item.rhs)]
        ELSE IF item.rhs.variable /\ item.rhs.value = <<"e", "x", "t", "r", "a">>
        THEN [item EXCEPT !.lhs = Value(item.lhs)]
        ELSE item

\* Marker(text): [items, boolops] with the extras normalised, or
\* InvalidMarker.  The expression must end the text.
Marker(text) ==
    LET Normalized(r) ==
            IF ~r.ok \/ r.end # Len(text) + 1 THEN InvalidMarker
            ELSE Ok([items |-> [i \in DOMAIN r.items |-> normalize_extras(r.items[i])],
                     boolops |-> r.boolops])
    IN  Normalized(parse_marker(text, 1))

\* str(Marker): each comparison as  lhs op rhs, a value in double quotes,
\* joined by the boolean operators.
MarkerStr(m) ==
    LET Serialize(node) ==
            IF node.variable THEN node.value ELSE <<"\"">> \o node.value \o <<"\"">>
        ItemStr(item) == Serialize(item.lhs) \o <<" ">> \o item.op \o <<" ">> \o Serialize(item.rhs)
        RECURSIVE Formatted(_)
        Formatted(k) ==
            IF k = Len(m.items) THEN ItemStr(m.items[k])
            ELSE ItemStr(m.items[k]) \o <<" ">> \o m.boolops[k] \o <<" ">> \o Formatted(k + 1)
    IN  Formatted(1)

\* Requirement(text): [name, str(specifier), clauses, marker], or
\* InvalidRequirement for a syntax error, or the InvalidSpecifier of
\* SpecifierSet (both are ValueErrors).  has_marker is FALSE for marker None.
\* The first ";" of the text starts the marker; head is the text before it,
\* e the position after the name.
RequirementOf(name, spec, semi, marker, rel) ==
    IF ~spec.ok THEN spec
    ELSE Ok([name |-> name, specifier |-> SpecifierSetStr(spec.val, rel),
             clauses |-> spec.val, has_marker |-> semi # 0, marker |-> marker])

RequirementParsed(name, spec_text, semi, marker, rel) ==
    IF ~spec_text.ok \/ ~marker.ok THEN InvalidRequirement
    ELSE RequirementOf(name, SpecifierSet(spec_text.val), semi, marker.val, rel)

RequirementNamed(head, p, e, semi, marker, rel) ==
    IF e = p THEN InvalidRequirement
    ELSE RequirementParsed(SubSeq(head, p, e - 1),
                           RequirementSpecifier(SubSeq(head, e, Len(head))), semi, marker, rel)

RequirementStarted(head, p, semi, marker, rel) ==
    RequirementNamed(head, p, IdentifierEnd(head, p), semi, marker, rel)

RequirementHeaded(head, semi, marker, rel) ==
    RequirementStarted(head, SkipWS(head, 1), semi, marker, rel)

RequirementSplit(text, semi, rel) ==
    RequirementHeaded(IF semi = 0 THEN text ELSE SubSeq(text, 1, semi - 1), semi,
                      IF semi = 0 THEN Ok(NoVal)
                      ELSE Marker(SubSeq(text, semi + 1, Len(text))), rel)

Requirement(text, rel) == RequirementSplit(text, IndexOf(text, ";"), rel)

(***************************************************************************)
(* The resolver tool                                           utils.py:74 *)
(*                                                                         *)
(* uv = [returncode, stdout], stdout = [json |-> FALSE] for text that      *)
(* json.loads rejects, else [json |-> TRUE, value |-> v] with v the value  *)
(* json.loads gives:                                                       *)
(*   [t |-> "null"], [t |-> "number"], [t |-> "string", s |-> text],        *)
(*   [t |-> "list", items |-> <<v, ...>>],                                 *)
(*   [t |-> "object", fields |-> [key |-> v]]                             *)
(***************************************************************************)
JNull == [t |-> "null"]

JNumber == [t |-> "number"]

JString(text) == [t |-> "string", s |-> text]

JList(items) == [t |-> "list", items |-> items]

JObject(fields) == [t |-> "object", fields |-> fields]

EmptyDict == [k \in {} |-> NoVal]

\* type(v).__name__ of a value json.loads gives (a number is an int).
PyTypeName(v) ==
    CASE v.t = "null"   -> "NoneType"
      [] v.t = "number" -> "int"
      [] v.t = "string" -> "str"
      [] v.t = "list"   -> "list"
      [] v.t = "object" -> "dict"

\* `for pkg in packages_data`: what the iteration yields, or TypeError.
JIterate(v) ==
    CASE v.t = "list"   -> Ok(v.items)
      [] v.t = "object" -> IF DOMAIN v.fields = {} THEN Ok(<<>>)
                           ELSE Ok(<<JString(<<"k">>)>>)     \* a dict yields its keys: str
      [] v.t = "string" -> Ok([i \in DOMAIN v.s |-> JString(<<v.s[i]>>)])
      [] OTHER          -> Raise("TypeError", <<"'", PyTypeName(v), "' object is not iterable">>)

\* pkg["name"] for an item that is not a dict: the TypeError of its type.
NotSubscriptable(pkg) ==
    CASE pkg.t = "string" -> Raise("TypeError", <<"string indices must be integers, not 'str'">>)
      [] pkg.t = "list"   -> Raise("TypeError", <<"list indices must be integers or slices, not str">>)
      [] OTHER            -> Raise("TypeError", <<"'", PyTypeName(pkg), "' object is not subscriptable">>)

\* canonicalize_name(pkg["name"]) for one item, or the error it raises:
\* canonicalize_name starts with name.lower(), which only a str has.
OutdatedKey(pkg) ==
    IF pkg.t # "object" THEN NotSubscriptable(pkg)
    ELSE IF "name" \notin DOMAIN pkg.fields THEN Raise("KeyError", <<"name">>)
    ELSE IF pkg.fields["name"].t # "string"
         THEN Raise("AttributeError",
                    <<"'", PyTypeName(pkg.fields["name"]), "' object has no attribute 'lower'">>)
    ELSE Ok(canonicalize_name(pkg.fields["name"].s))

OutdatedPkgFields == {"name", "version", "latest_version"}

\* OutdatedPkg.model_validate(pkg): three required str fields, others ignored.
OutdatedPkg(pkg) ==
    IF \A f \in OutdatedPkgFields : f \in DOMAIN pkg.fields /\ pkg.fields[f].t = "string"
    THEN Ok([f \in OutdatedPkgFields |-> pkg.fields[f].s])
    ELSE Raise("ValidationError", <<"validation error for OutdatedPkg">>)

\* A dict in which the first value assigned to a key stays.
DictOf_FirstWins(keys, vals) ==
    [k \in Range(keys) |->
        vals[CHOOSE i \in DOMAIN keys : keys[i] = k /\ \A j \in DOMAIN keys : keys[j] = k => i <= j]]

\* A dict built by inserting (keys[i], vals[i]) in order: the last value
\* inserted under a key stays.
DictOf(keys, vals) ==
    [k \in Range(keys) |->
        vals[CHOOSE i \in DOMAIN keys : keys[i] = k /\ \A j \in DOMAIN keys : keys[j] = k => j <= i]]

\* The keys of such a dict in iteration order: by first insertion.
RECURSIVE DictKeys(_)
DictKeys(keys) ==
    IF keys = <<>> THEN <<>>
    ELSE LET r == DictKeys(SubSeq(keys, 1, Len(keys) - 1))
         IN  IF keys[Len(keys)] \in Range(r) THEN r ELSE Append(r, keys[Len(keys)])

\* One element of the dict comprehension: key first, then the validated value.
OutdatedEntry(pkg) ==
    LET KeyAndValue(k, m) ==
            IF ~k.ok THEN k
            ELSE IF ~m.ok THEN m
            ELSE Ok([key |-> k.val, pkg |-> m.val])
    IN  KeyAndValue(OutdatedKey(pkg), OutdatedPkg(pkg))

\* get_uv_outdated(): dict canonical name -> OutdatedPkg.
get_uv_outdated(u) ==
    LET OutdatedDict(all) ==        \* the dict comprehension, evaluated in order
            IF ~all.ok THEN all
            ELSE Ok(DictOf([i \in DOMAIN all.val |-> all.val[i].key],
                           [i \in DOMAIN all.val |-> all.val[i].pkg]))
        OutdatedFrom(it) ==         \* `for pkg in packages_data`
            IF ~it.ok THEN it
            ELSE OutdatedDict(AllOk([i \in DOMAIN it.val |-> OutdatedEntry(it.val[i])]))
    IN  IF u.returncode # 0 THEN Ok(EmptyDict)
        ELSE IF ~u.stdout.json THEN Ok(EmptyDict)         \* except json.JSONDecodeError
        ELSE OutdatedFrom(JIterate(u.stdout.value))

(***************************************************************************)
(* The installed-metadata provider                        utils.py:94, 117 *)
(*                                                                         *)
(* site = [find_returncode |-> exit status of `uv python find`,            *)
(*         pyvenv_cfg |-> [exists |-> BOOLEAN, lines |-> <<text, ...>>],    *)
(*         site_packages |-> the set of X.Y for which                      *)
(*                           <venv>/lib/pythonX.Y/site-packages is a dir,  *)
(*         dists |-> <<[Name, Version, Summary, Requires_Dist], ...>>]     *)
(***************************************************************************)
VersionWord == <<"v", "e", "r", "s", "i", "o", "n">>

\* The first line of pyvenv.cfg that starts with "version", 0 if none.
VersionLine(lines) == FirstIndex({i \in DOMAIN lines : StartsWith(lines[i], VersionWord)})

\* get_site_packages_from_uv(): the X.Y that names the directory, or an error.
NoPythonVersion == Raise("RuntimeError", <<"Could not find Python version in pyvenv.cfg">>)

\* parts[:2]: the first two elements, or all of them when there are fewer.
FirstTwo(parts) == SubSeq(parts, 1, IF Len(parts) < 2 THEN Len(parts) ELSE 2)

get_site_packages_from_uv(st) ==
    LET SitePackagesAt(xy) ==           \* `site_packages.is_dir()`
            IF xy \in st.site_packages THEN Ok(xy)
            ELSE Raise("RuntimeError", <<"Could not find site-packages at ", "site-packages">>)
        SitePackagesFor(py_version) ==  \* `".".join(py_version.split(".")[:2])`
            IF py_version = <<>> THEN NoPythonVersion
            ELSE SitePackagesAt(Join(FirstTwo(SplitOn(py_version, ".")), <<".">>))
        PyVersionOf(parts) ==           \* `line.strip().split("=")[1].strip()`
            IF Len(parts) < 2 THEN Raise("IndexError", <<"list index out of range">>)
            ELSE SitePackagesFor(Strip(parts[2]))
        PyvenvCfgLine(k) ==             \* k: the first version line, 0 if none
            IF k = 0 THEN NoPythonVersion
            ELSE PyVersionOf(SplitOn(Strip(st.pyvenv_cfg.lines[k]), "="))
    IN  IF st.find_returncode # 0
        THEN Raise("RuntimeError", <<"Could not find Python executable with uv">>)
        ELSE IF ~st.pyvenv_cfg.exists
        THEN Raise("FileNotFoundError", <<"No such file or directory: ", "pyvenv.cfg">>)
        ELSE PyvenvCfgLine(VersionLine(st.pyvenv_cfg.lines))

\* SitePackage built from one dist-info directory.
SitePackage(dist) ==
    [name |-> canonicalize_name(dist.Name), version |-> dist.Version,
     summary |-> dist.Summary, requires_dist |-> dist.Requires_Dist]

\* get_all_metadata_from_site_packages(): dict canonical name -> SitePackage.
get_all_metadata_from_site_packages(st) ==
    LET MetadataIn(sp) ==           \* the glob below the directory found
            IF ~sp.ok THEN sp
            ELSE Ok(DictOf([i \in DOMAIN st.dists |-> canonicalize_name(st.dists[i].Name)],
                           [i \in DOMAIN st.dists |-> SitePackage(st.dists[i])]))
    IN  MetadataIn(get_site_packages_from_uv(st))

(***************************************************************************)
(* The lockfile graph builder                            utils.py:138..299 *)
(*                                                                         *)
(* lock = [status |-> "ok" | "missing" | "malformed" | "undecodable",      *)
(*         package |-> <<entry, ...>>]          (absent key: empty list)   *)
(* "malformed" is text that is no TOML document, "undecodable" bytes that  *)
(* are no UTF-8 text: tomllib.load decodes the file before it parses it.   *)
(* entry = [name, version, dependencies |-> <<dep, ...>>,                  *)
(*          optional |-> <<[extra |-> g, deps |-> <<dep, ...>>], ...>>,    *)
(*          extra |-> {g, ...}, requires_dist |-> <<...>>]                 *)
(* dep   = [dict |-> TRUE, name |-> text]        {name = "..."}, name ""   *)
(*                                               also for a missing key    *)
(*       | [dict |-> FALSE, text |-> text]       a bare string             *)
(*                                                                         *)
(* Package objects live in a heap: objs[i] is the object created for the   *)
(* i-th lockfile entry, idx maps a canonical name to the object now stored *)
(* under it, keys lists the names in dict order.  A Dependent holds the    *)
(* heap index of the depending Package object.                             *)
(***************************************************************************)
\* _parse_dependency_name(dep)
ParseDependencyName(dep) ==
    IF dep.dict THEN Ok(canonicalize_name(dep.name))
    ELSE IF SplitWhitespace(dep.text) = <<>>
         THEN Raise("IndexError", <<"list index out of range">>)
    ELSE Ok(canonicalize_name(SplitOn(SplitWhitespace(dep.text)[1], "=")[1]))

\* The first requirement string of the owner's metadata whose canonical name
\* is dep_name, 0 if none: strings that do not parse are passed over.
MatchingRequiresDist(dep_name, requires_dist, rel) ==
    LET NamesDependency(req) ==     \* a string that does not parse is passed over
            req.ok /\ canonicalize_name(req.val.name) = dep_name
    IN  FirstIndex({i \in DOMAIN requires_dist : NamesDependency(Requirement(requires_dist[i], rel))})

\* The req_str that _create_requirement_from_dep settles on.
RequirementText_BareName(dep_name, parent_name, site_metadata_by_name, rel) == dep_name

RequirementText(dep_name, parent_name, site_metadata_by_name, rel) ==
    LET RequirementTextAt(requires_dist, k) == IF k = 0 THEN dep_name ELSE requires_dist[k]
    IN  IF parent_name \in DOMAIN site_metadata_by_name
        THEN RequirementTextAt(
                 site_metadata_by_name[parent_name].requires_dist,
                 MatchingRequiresDist(dep_name,
                                      site_metadata_by_name[parent_name].requires_dist, rel))
        ELSE dep_name

\* _create_requirement_from_dep(dep_name, parent_name, site_metadata_by_name)
CreateRequirementFromDep(dep_name, parent_name, site_metadata_by_name, rel) ==
    LET OrBareName(r) == IF r.ok THEN r ELSE Requirement(dep_name, rel)  \* this one may raise
    IN  OrBareName(Requirement(RequirementText(dep_name, parent_name, site_metadata_by_name, rel), rel))

\* One pass of the loop body over a dependency list: for each dep the
\* requirement appended, [skip |-> TRUE] for an empty name, or the error.
DepRequirements(deps, parent_name, site_metadata_by_name, rel) ==
    LET Appended(r) == IF ~r.ok THEN r ELSE Ok([skip |-> FALSE, req |-> r.val])
        DepRequirement(n) ==        \* n: what _parse_dependency_name gave
            IF ~n.ok THEN n
            ELSE IF n.val = <<>> THEN Ok([skip |-> TRUE])
            ELSE Appended(CreateRequirementFromDep(n.val, parent_name, site_metadata_by_name, rel))
    IN  [i \in DOMAIN deps |-> DepRequirement(ParseDependencyName(deps[i]))]

\* The requirements a dependency list contributes (its non-skipped entries).
GroupDependencies(results) ==
    LET AppendedOf(kept) == [i \in DOMAIN kept |-> kept[i].val.req]
    IN  AppendedOf(SelectSeq(results, LAMBDA x : ~x.val.skip))

RECURSIVE Concat(_)
Concat(seqs) == IF seqs = <<>> THEN <<>> ELSE Head(seqs) \o Concat(Tail(seqs))

\* The dependency lists of one entry in the order the code walks them:
\* main dependencies (group "", the empty text), then each extra.
EntryGroups(entry) ==
    <<[group |-> <<>>, deps |-> entry.dependencies]>>
    \o [i \in DOMAIN entry.optional |->
            [group |-> entry.optional[i].extra, deps |-> entry.optional[i].deps]]

\* Every (owner entry, group, position) of the lockfile in walking order.
DepSites(pkgs) ==
    LET GroupSites(i, groups) ==
            Concat([g \in DOMAIN groups |->
                [d \in DOMAIN groups[g].deps |->
                    [owner |-> i, group |-> groups[g].group, dep |-> groups[g].deps[d]]]])
    IN  Concat([i \in DOMAIN pkgs |-> GroupSites(i, EntryGroups(pkgs[i]))])

EntryName(pkgs, i) == canonicalize_name(pkgs[i].name)

\* Step 2: `packages[name] = package`: the object stored under a name is the
\* one created for the last entry of that name.
NodeIndex(pkgs, name) ==
    CHOOSE i \in DOMAIN pkgs :
        EntryName(pkgs, i) = name /\ \A j \in DOMAIN pkgs : EntryName(pkgs, j) = name => j <= i

\* RequiresOf keeping the main group only.
RequiresOf_MainOnly(pkgs, name, meta, rel) ==
    LET RequiresDict(sets) == DictOf([k \in DOMAIN sets |-> sets[k].name], sets)
        DependencyGroups(groups) ==
            [g \in DOMAIN groups |->
                [name |-> groups[g].group,
                 dependencies |->
                     GroupDependencies(DepRequirements(groups[g].deps, name, meta, rel))]]
    IN  RequiresDict(SelectSeq(
            Concat([i \in DOMAIN pkgs |->
                IF EntryName(pkgs, i) # name THEN <<>>
                ELSE DependencyGroups(EntryGroups(pkgs[i]))]),
            LAMBDA grp : grp.dependencies # <<>> /\ grp.name = <<>>))

\* Step 3: the requires dict of the object stored under `name`: group g is set
\* by every entry of that name whose list g is non-empty; the last one stays.
RequiresOf(pkgs, name, meta, rel) ==
    LET RequiresDict(sets) ==       \* `package.requires[group] = DependencyGroup(...)`
            DictOf([k \in DOMAIN sets |-> sets[k].name], sets)
        DependencyGroups(groups) ==
            [g \in DOMAIN groups |->
                [name |-> groups[g].group,
                 dependencies |->
                     GroupDependencies(DepRequirements(groups[g].deps, name, meta, rel))]]
    IN  RequiresDict(SelectSeq(
            Concat([i \in DOMAIN pkgs |->
                IF EntryName(pkgs, i) # name THEN <<>>
                ELSE DependencyGroups(EntryGroups(pkgs[i]))]),
            LAMBDA grp : grp.dependencies # <<>>))

\* Step 4: `parent_package = packages[parent_name]`: the object a Dependent
\* created while walking entry i refers to.
ParentObject_OwnEntry(pkgs, i) == i

ParentObject(pkgs, i) == NodeIndex(pkgs, EntryName(pkgs, i))

\* Step 4: whether a dependency name gets an edge.
HasEdge(dep_name, names) == dep_name # <<>> /\ dep_name \in names

\* Step 4: the dependents list of the object stored under `name`.
DependentsOf(pkgs, name, names) ==
    LET DependentsAt(sites) ==      \* `packages[dep_name].dependents.append(...)`
            [k \in DOMAIN sites |->
                [through |-> sites[k].group,
                 package |-> ParentObject(pkgs, sites[k].owner)]]
        EdgeTo(dep_name) == HasEdge(dep_name, names) /\ dep_name = name
    IN  DependentsAt(SelectSeq(DepSites(pkgs),
                               LAMBDA x : EdgeTo(ParseDependencyName(x.dep).val)))

\* The first error steps 3 raises, if any.
BuildErrors(pkgs, meta, rel) ==
    LET EntryErrors(groups, name) ==
            Concat([g \in DOMAIN groups |-> DepRequirements(groups[g].deps, name, meta, rel)])
    IN  AllOk(Concat([i \in DOMAIN pkgs |->
            EntryErrors(EntryGroups(pkgs[i]), EntryName(pkgs, i))]))

SummaryOf(name, meta) == IF name \in DOMAIN meta THEN meta[name].summary ELSE <<>>

\* BuildGraph with the version of an installed package read from its
\* metadata instead of the lockfile.
BuildGraph_InstalledVersion(pkgs, meta, rel) ==
    LET names == {EntryName(pkgs, i) : i \in DOMAIN pkgs}
        PackageObject(i, name, stored) ==
            [name |-> name,
             version |-> IF name \in DOMAIN meta THEN meta[name].version
                         ELSE pkgs[i].version,
             summary |-> SummaryOf(name, meta),
             requires |-> IF stored THEN RequiresOf(pkgs, name, meta, rel) ELSE EmptyDict,
             dependents |-> IF stored THEN DependentsOf(pkgs, name, names) ELSE <<>>]
    IN  [keys |-> DictKeys([i \in DOMAIN pkgs |-> EntryName(pkgs, i)]),
         idx  |-> [n \in names |-> NodeIndex(pkgs, n)],
         objs |-> [i \in DOMAIN pkgs |->
                    PackageObject(i, EntryName(pkgs, i),
                                  NodeIndex(pkgs, EntryName(pkgs, i)) = i)]]

\* Steps 2-4 on a parsed lockfile with the metadata dict `meta`.
\* The Package object created for entry i, named `name`: `stored` tells
\* whether it is the object left in the dict, which steps 3 and 4 fill.
BuildGraph(pkgs, meta, rel) ==
    LET names == {EntryName(pkgs, i) : i \in DOMAIN pkgs}
        PackageObject(i, name, stored) ==
            [name |-> name,
             version |-> pkgs[i].version,
             summary |-> SummaryOf(name, meta),
             requires |-> IF stored THEN RequiresOf(pkgs, name, meta, rel) ELSE EmptyDict,
             dependents |-> IF stored THEN DependentsOf(pkgs, name, names) ELSE <<>>]
    IN  [keys |-> DictKeys([i \in DOMAIN pkgs |-> EntryName(pkgs, i)]),
         idx  |-> [n \in names |-> NodeIndex(pkgs, n)],
         objs |-> [i \in DOMAIN pkgs |->
                    PackageObject(i, EntryName(pkgs, i),
                                  NodeIndex(pkgs, EntryName(pkgs, i)) = i)]]

\* What a failed read of uv.lock raises.  The two `except` clauses turn
\* FileNotFoundError and TOMLDecodeError into RuntimeError; the
\* UnicodeDecodeError of a file that is not UTF-8 is neither and passes.
LockReadError(lk) ==
    IF lk.status = "missing" THEN Raise("RuntimeError", <<"uv.lock", " not found">>)
    ELSE IF lk.status = "malformed"
    THEN Raise("RuntimeError", <<"Failed to parse ", "uv.lock", ": ", "TOMLDecodeError">>)
    ELSE Raise("UnicodeDecodeError", <<"'utf-8' codec can't decode byte">>)

\* `except RuntimeError: site_metadata_by_name = {}`: what the handler catches.
MetadataCaught(m) == ~m.ok /\ m.exc = "RuntimeError"

\* get_locked_packages_and_deps(): the graph, or the error raised.
\* m is what the metadata call returned or raised, meta the value of
\* site_metadata_by_name after the try block, errs what step 3 raised.
get_locked_packages_and_deps(lk, st, rel) ==
    LET GraphOrError(meta, errs) ==
            IF ~errs.ok THEN errs ELSE Ok(BuildGraph(lk.package, meta, rel))
        GraphWith(meta) == GraphOrError(meta, BuildErrors(lk.package, meta, rel))
        LockedPackagesAndDeps(m) ==
            IF lk.status # "ok" THEN LockReadError(lk)
            ELSE IF ~m.ok /\ ~MetadataCaught(m) THEN m
            ELSE GraphWith(IF m.ok THEN m.val ELSE EmptyDict)
    IN  LockedPackagesAndDeps(get_all_metadata_from_site_packages(st))

(***************************************************************************)
(* The manifest                                               utils.py:302 *)
(*                                                                         *)
(* pyproject = [status |-> "ok" | "missing" | "malformed" | "undecodable", *)
(*              has_project |-> BOOLEAN, dependencies |-> <<text, ...>>,    *)
(*              optional |-> <<[name |-> g, deps |-> <<text, ...>>], ...>>, *)
(*              has_groups |-> BOOLEAN,                                    *)
(*              groups |-> <<[name |-> g, deps |-> <<text, ...>>], ...>>]   *)
(***************************************************************************)
\* What a failed read of pyproject.toml raises in get_direct_dependencies:
\* the same two `except` clauses, which UnicodeDecodeError passes.
PyprojectReadError(pp) ==
    IF pp.status = "missing" THEN Raise("RuntimeError", <<"pyproject.toml", " not found">>)
    ELSE IF pp.status = "malformed"
    THEN Raise("RuntimeError", <<"Failed to parse ", "pyproject.toml", ": ", "TOMLDecodeError">>)
    ELSE Raise("UnicodeDecodeError", <<"'utf-8' codec can't decode byte">>)

\* The requirement strings get_direct_dependencies collects, in order.
DeclaredDependencies(pp) ==
    (IF pp.has_project
     THEN pp.dependencies \o Concat([i \in DOMAIN pp.optional |-> pp.optional[i].deps])
     ELSE <<>>)
    \o (IF pp.has_groups THEN Concat([i \in DOMAIN pp.groups |-> pp.groups[i].deps]) ELSE <<>>)

\* get_direct_dependencies(): dict canonical name -> Requirement.
get_direct_dependencies(pp, rel) ==
    LET DirectDict(reqs) ==     \* `direct_dependencies_by_name[...] = req` in order
            IF ~reqs.ok THEN reqs                   \* InvalidRequirement is not caught
            ELSE Ok(DictOf([i \in DOMAIN reqs.val |-> canonicalize_name(reqs.val[i].name)],
                           reqs.val))
        Requirements(deps) == AllOk([i \in DOMAIN deps |-> Requirement(deps[i], rel)])
    IN  IF pp.status # "ok" THEN PyprojectReadError(pp)
        ELSE DirectDict(Requirements(DeclaredDependencies(pp)))

(***************************************************************************)
(* get_package_specifiers                                     utils.py:330 *)
(*                                                                         *)
(* It reads uv.lock and the installed metadata itself; its `packages`      *)
(* parameter is not used.  A requires-dist item of the lockfile is         *)
(* [dict |-> TRUE, name |-> text, specifier |-> text, marker |-> text]     *)
(* (empty text for an absent key) or a bare string [dict |-> FALSE,        *)
(* text |-> text].  The marker key is never read.                          *)
(***************************************************************************)
\* First pass: installed_extras[pkg_name] = set(pkg_data.get("extra", [])).
InstalledExtras(pkgs) ==
    DictOf([i \in DOMAIN pkgs |-> EntryName(pkgs, i)], [i \in DOMAIN pkgs |-> pkgs[i].extra])

\* The assignments `specifiers[dep_name] = spec` of the lockfile pass, in order.
LockSpecifierWrites(pkgs) ==
    LET LockWritesOf(rd) ==
            [k \in DOMAIN rd |->
                [key |-> canonicalize_name(rd[k].name), spec |-> rd[k].specifier]]
    IN  Concat([i \in DOMAIN pkgs |->
            LockWritesOf(SelectSeq(pkgs[i].requires_dist,
                                   LAMBDA r : /\ r.dict
                                              /\ canonicalize_name(r.name) # <<>>
                                              /\ r.specifier # <<>>))])

ExtraEquals == <<"e", "x", "t", "r", "a", " ", "=", "=">>

\* `extra_parts[1].strip().strip("'\"").strip()`
ExtraNameOf(marker_str) ==
    Strip(StripChars(Strip(SplitText(marker_str, ExtraEquals)[2]), {"'", "\""}))

\* The requirement is conditional on an extra that is not installed.
OnMissingExtra(req, pkg_installed_extras) ==
    /\ req.has_marker
    /\ FindText(MarkerStr(req.marker), ExtraEquals) # 0
    /\ ExtraNameOf(MarkerStr(req.marker)) \notin pkg_installed_extras

\* Whether the loop body reaches `specifiers[dep_name] = str(req.specifier)`.
SiteConstraintKept(req, pkg_installed_extras) ==
    /\ req.ok                                  \* except ValueError: continue
    /\ req.val.clauses # <<>>
    /\ ~OnMissingExtra(req.val, pkg_installed_extras)

\* The assignments of the site-packages pass, in order.
SiteSpecifierWrites(names, site_metadata, installed_extras, rel) ==
    LET ParsedRequiresDist(requires_dist) ==    \* `req = Requirement(req_str)`
            [k \in DOMAIN requires_dist |-> Requirement(requires_dist[k], rel)]
        SiteWritesOf(kept) ==
            [k \in DOMAIN kept |->
                [key |-> canonicalize_name(kept[k].val.name),
                 spec |-> kept[k].val.specifier]]
        PackageWrites(reqs, pkg_installed_extras) ==
            SiteWritesOf(SelectSeq(reqs,
                                   LAMBDA r : SiteConstraintKept(r, pkg_installed_extras)))
        ExtrasOf(pkg_name) ==                   \* `installed_extras.get(pkg_name, set())`
            IF pkg_name \in DOMAIN installed_extras THEN installed_extras[pkg_name] ELSE {}
    IN  Concat([i \in DOMAIN names |->
            PackageWrites(ParsedRequiresDist(site_metadata[names[i]].requires_dist),
                          ExtrasOf(names[i]))])

\* get_package_specifiers(): dict canonical name -> constraint text.  m is
\* what the metadata call returned or raised.
get_package_specifiers(lk, st, rel) ==
    LET LockPass ==             \* FileNotFoundError, KeyError, ValueError: pass
                                \* (TOMLDecodeError, UnicodeDecodeError are ValueErrors)
            IF lk.status = "ok" THEN LockSpecifierWrites(lk.package) ELSE <<>>
        LockExtras == IF lk.status = "ok" THEN InstalledExtras(lk.package) ELSE EmptyDict
        SitePass(m) ==          \* RuntimeError: pass
            IF m.ok
            THEN SiteSpecifierWrites(
                     DictKeys([i \in DOMAIN st.dists |-> canonicalize_name(st.dists[i].Name)]),
                     m.val, LockExtras, rel)
            ELSE <<>>
        SpecifierDict(writes) ==
            DictOf([i \in DOMAIN writes |-> writes[i].key],
                   [i \in DOMAIN writes |-> writes[i].spec])
        PackageSpecifiers(m) ==
            IF ~m.ok /\ m.exc # "RuntimeError" THEN m
            ELSE Ok(SpecifierDict(LockPass \o SitePass(m)))
    IN  PackageSpecifiers(get_all_metadata_from_site_packages(st))

(***************************************************************************)
(* find_direct_ancestors                                      utils.py:421 *)
(*                                                                         *)
(* The loop state is [queue, visited, ancestors]; one FdaStep is one       *)
(* iteration of `while queue`.                                             *)
(***************************************************************************)
\* `ancestors = set(); visited = set(); queue = [package_name]`
FdaInitial_Seeded(package_name) ==
    [queue |-> <<package_name>>, visited |-> {}, ancestors |-> {package_name}]

FdaInitial(package_name) ==
    [queue |-> <<package_name>>, visited |-> {}, ancestors |-> {}]

\* The group of the edge taken for the name of the dependent.
DependentName_Through(graph, dependent) == dependent.through

\* dependent.package.name
DependentName(graph, dependent) == graph.objs[dependent.package].name

\* `if dependent_name in direct_deps`
IsDirectAncestor_Any(dependent_name, direct_deps) == TRUE

IsDirectAncestor(dependent_name, direct_deps) == dependent_name \in DOMAIN direct_deps

\* The queue after `if current in visited: continue`.
QueueAfterSkip_NotPopped(q) == q

QueueAfterSkip(q) == Tail(q)

\* The for loop over packages[current].dependents.
FdaExpand(graph, direct_deps, st) ==
    LET DependentNamesOf(dependents) ==
            [i \in DOMAIN dependents |-> DependentName(graph, dependents[i])]
        FdaRecord(current, names) ==
            [queue |-> Tail(st.queue)
                       \o SelectSeq(names, LAMBDA n : ~IsDirectAncestor(n, direct_deps)),
             visited |-> st.visited \cup {current},
             ancestors |-> st.ancestors
                           \cup {n \in Range(names) : IsDirectAncestor(n, direct_deps)}]
    IN  FdaRecord(Head(st.queue),
                  DependentNamesOf(graph.objs[graph.idx[Head(st.queue)]].dependents))

\* One iteration of the while loop (st.queue is not empty).
FdaStep(graph, direct_deps, st) ==
    IF Head(st.queue) \in st.visited
    THEN [st EXCEPT !.queue = QueueAfterSkip(st.queue)]
    ELSE IF Head(st.queue) \notin DOMAIN graph.idx
    THEN [st EXCEPT !.queue = Tail(st.queue), !.visited = st.visited \cup {Head(st.queue)}]
    ELSE FdaExpand(graph, direct_deps, st)

RECURSIVE FdaRun(_, _, _)
FdaRun(graph, direct_deps, st) ==
    IF st.queue = <<>> THEN st.ancestors
    ELSE FdaRun(graph, direct_deps, FdaStep(graph, direct_deps, st))

\* find_direct_ancestors(package_name, packages): it reads the manifest itself.
find_direct_ancestors(package_name, graph, pp, rel) ==
    LET FdaSearch(d) ==         \* d: what get_direct_dependencies returned or raised
            IF ~d.ok /\ d.exc = "RuntimeError" THEN Ok({})
            ELSE IF ~d.ok THEN d
            ELSE Ok(FdaRun(graph, d.val, FdaInitial(package_name)))
    IN  FdaSearch(get_direct_dependencies(pp, rel))

(***************************************************************************)
(* group_packages_by_dependency_groups                        utils.py:468 *)
(*                                                                         *)
(* It reads pyproject.toml itself.  The result is a dict group name ->     *)
(* list of (name, pkg, outdated_pkg, is_direct); "" is the empty text.     *)
(***************************************************************************)
\* The dependency lists of pyproject.toml in the order the function walks
\* them: project.dependencies (group ""), each extra, each dependency group.
ManifestGroups(pp) ==
    (IF pp.has_project
     THEN <<[name |-> <<>>, deps |-> pp.dependencies]>> \o pp.optional
     ELSE <<>>)
    \o (IF pp.has_groups THEN pp.groups ELSE <<>>)

\* found_groups without the fallback to the main group "".
FoundGroups_NoFallback(names, toml) == {g \in DOMAIN toml : names \cap toml[g] # {}}

\* `found_groups` for a set of names: the keys of dependency_groups_from_toml
\* whose set holds one of them; `if not found_groups: found_groups.add("")`.
FoundGroups(names, toml) ==
    IF {g \in DOMAIN toml : names \cap toml[g] # {}} = {} THEN {<<>>}
    ELSE {g \in DOMAIN toml : names \cap toml[g] # {}}

\* The names whose group membership decides the buckets of one package: its
\* own name if it is direct, else the names of `pkg.dependents`.
GroupingNames(graph, t) ==
    IF t.is_direct THEN {t.name}
    ELSE {graph.objs[d.package].name : d \in Range(graph.objs[t.pkg].dependents)}

\* `dependency_groups_from_toml`: group name -> set of canonical names, "" for
\* project.dependencies, built list by list; a list that declares nothing
\* sets no key, and a later list of the same name replaces the earlier set.
dependency_groups_from_toml(pp, rel) ==
    LET ParsedLists(tables) ==
            [t \in DOMAIN tables |->
                AllOk([i \in DOMAIN tables[t].deps |-> Requirement(tables[t].deps[i], rel)])]
        NameSets(tables, parsed) ==
            [t \in DOMAIN tables |->
                [name |-> tables[t].name,
                 members |-> {canonicalize_name(parsed[t].val[i].name) :
                                i \in DOMAIN parsed[t].val}]]
        FromToml(sets) ==
            DictOf([k \in DOMAIN sets |-> sets[k].name], [k \in DOMAIN sets |-> sets[k].members])
        Indexed(tables, parsed) ==
            IF ~AllOk(parsed).ok THEN AllOk(parsed)
            ELSE Ok(FromToml(SelectSeq(NameSets(tables, parsed), LAMBDA x : x.members # {})))
    IN  Indexed(ManifestGroups(pp), ParsedLists(ManifestGroups(pp)))

group_packages_by_dependency_groups(outdated_list, graph, pp, rel) ==
    LET GroupsOf(t, toml) == FoundGroups(GroupingNames(graph, t), toml)
        Buckets(toml) ==
            [g \in UNION {GroupsOf(outdated_list[i], toml) : i \in DOMAIN outdated_list} |->
                SelectSeq(outdated_list, LAMBDA t : g \in GroupsOf(t, toml))]
        Grouped(toml) == IF ~toml.ok THEN toml ELSE Ok(Buckets(toml.val))
    IN  IF pp.status \in {"missing", "malformed"}     \* FileNotFoundError, TOMLDecodeError
        THEN Ok([g \in {<<>>} |-> outdated_list])
        ELSE IF pp.status = "undecodable"               \* not caught
        THEN Raise("UnicodeDecodeError", <<"'utf-8' codec can't decode byte">>)
        ELSE Grouped(dependency_groups_from_toml(pp, rel))

(***************************************************************************)
(* Table rows                                          __main__.py:155..300 *)
(*                                                                         *)
(* A row is the list of its cells, a cell a text.  Console markup tags and *)
(* fixed captions are never parsed: they are single elements of a text,    *)
(* "[cyan]a[/cyan]" being <<"[", "cyan", "]", "a", "[/", "cyan", "]">>.     *)
(* name_format is [indent |-> text before the tag, style |-> tag].         *)
(***************************************************************************)
\* f"[{style}]{text}[/{style}]"
Markup(style, text) == <<"[", style, "]">> \o text \o <<"[/", style, "]">>

\* `dependents_str = "" if is_direct or not parents else ", ".join(sorted(parents))`
DependentsStr_Always(is_direct, parents) == Join(SortedTexts(parents), <<",", " ">>)

DependentsStr(is_direct, parents) ==
    IF is_direct \/ parents = {} THEN <<>> ELSE Join(SortedTexts(parents), <<",", " ">>)

\* _create_package_row for the tuple t = (name, pkg, outdated_pkg, is_direct).
create_package_row(t, graph, specs, show_why, name_format, rel) ==
    LET Parents(dependents) ==      \* `{dep.package.name for dep in pkg.dependents}`
            {DependentName(graph, dependents[i]) : i \in DOMAIN dependents}
        RowItems(pkg, latest_colored, constraint) ==
            <<name_format.indent \o Markup(name_format.style, t.name),
              Markup("bold", pkg.version),
              latest_colored>>
            \o (IF show_why
                THEN <<constraint, DependentsStr(t.is_direct, Parents(pkg.dependents))>>
                ELSE <<>>)
            \o <<pkg.summary>>
        Row(pkg, latest, locked) ==
            IF latest = pkg.version THEN Ok(RowItems(pkg, Markup("yellow", latest), <<>>))
            ELSE IF ~locked.ok THEN locked          \* InvalidVersion is not caught
            ELSE IF locked.val
            THEN Ok(RowItems(pkg, Markup("yellow", latest),
                             IF t.name \in DOMAIN specs THEN specs[t.name] ELSE <<>>))
            ELSE Ok(RowItems(pkg, Markup("red", latest), <<>>))
    IN  Row(graph.objs[t.pkg], t.outdated_pkg.latest_version,
            is_locked_by_specifier(specs, t.name, t.outdated_pkg.latest_version, rel))

\* generate_normal_rows: one row per package, in list order.
generate_normal_rows(outdated_list, graph, specs, show_why, rel) ==
    AllOk([i \in DOMAIN outdated_list |->
             create_package_row(outdated_list[i], graph, specs, show_why,
                                [indent |-> <<>>, style |-> "cyan"], rel)])

\* The key of the bucket of orphaned packages.
UnknownKey == <<"_", "u", "n", "k", "n", "o", "w", "n">>

\* The keys of the buckets one package is appended to; `found` is what
\* find_direct_ancestors returned for a transitive package.
AncestorKeys_Unknown(t, found) == IF t.is_direct THEN {t.name} ELSE {UnknownKey}

AncestorKeys(t, found) ==
    IF t.is_direct THEN {t.name}
    ELSE IF found = {} THEN {UnknownKey}
    ELSE found

\* generate_grouped_rows, first loop: `groups` and
\* `direct_dependencies_with_groups`, or the error a search raised.
AncestorGroups(outdated_list, graph, pp, rel) ==
    LET Members(found, key) ==      \* `groups.setdefault(key, []).append(...)`
            SelectSeq([i \in DOMAIN outdated_list |-> i],
                      LAMBDA i : key \in AncestorKeys(outdated_list[i], found[i]))
        Bucket(picked) == [j \in DOMAIN picked |-> outdated_list[picked[j]]]
        Grouped(found) ==
            IF ~found.ok THEN found
            ELSE Ok([groups |->
                        [key \in UNION {AncestorKeys(outdated_list[i], found.val[i]) :
                                          i \in DOMAIN outdated_list} |->
                            Bucket(Members(found.val, key))],
                     with_groups |->
                        UNION {found.val[i] : i \in DOMAIN outdated_list}])
    IN  Grouped(AllOk([i \in DOMAIN outdated_list |->
                         IF outdated_list[i].is_direct THEN Ok({})
                         ELSE find_direct_ancestors(outdated_list[i].name, graph, pp, rel)]))

\* The first bucket entry taken for the direct dependency of the bucket.
DirectDepOf_First(group_packages) == <<group_packages[1]>>

\* `direct_dep = next((item for item in group_packages if item[3]), None)`:
\* the direct entries of the bucket, of which the first is used.
DirectDepOf(group_packages) == SelectSeq(group_packages, LAMBDA t : t.is_direct)

\* generate_grouped_rows: the rows of every bucket, by sorted key.
generate_grouped_rows(outdated_list, graph, specs, show_why, pp, rel) ==
    LET EmptyCols == [i \in 1..(IF show_why THEN 5 ELSE 3) |-> <<>>]
        RowsOf(items, name_format) ==
            [i \in DOMAIN items |->
                create_package_row(items[i], graph, specs, show_why, name_format, rel)]
        Section(key, directs, transitives) ==   \* a direct dependency with transitive deps
            (IF directs # <<>>
             THEN RowsOf(<<directs[1]>>, [indent |-> <<>>, style |-> "cyan"])
             ELSE <<Ok(<<Markup("cyan", key)>> \o EmptyCols)>>)
            \o RowsOf(transitives, [indent |-> <<" ", " ">>, style |-> "italic cyan"])
        KeyRows(b, key) ==
            IF key = UnknownKey
            THEN <<Ok(<<Markup("dim", <<"Unknown ancestor">>)>> \o EmptyCols)>>
                 \o RowsOf(b.groups[key], [indent |-> <<" ", " ">>, style |-> "cyan"])
            ELSE IF key \notin b.with_groups
            THEN RowsOf(<<b.groups[key][1]>>, [indent |-> <<>>, style |-> "cyan"])
            ELSE Section(key, DirectDepOf(b.groups[key]),
                         SelectSeq(b.groups[key], LAMBDA t : ~t.is_direct))
        SectionsOf(b, keys) == AllOk(Concat([k \in DOMAIN keys |-> KeyRows(b, keys[k])]))
        Rows(b) == IF ~b.ok THEN b ELSE SectionsOf(b.val, SortedTexts(DOMAIN b.val.groups))
    IN  Rows(AncestorGroups(outdated_list, graph, pp, rel))

(***************************************************************************)
(* Inputs                                                                  *)
(***************************************************************************)
na == <<"a">>

nb == <<"b">>

nc == <<"c">>

\* A name that no lockfile entry carries.
nx == <<"x">>

Nodes == {na, nb, nc}

NodeSeq == <<na, nb, nc>>

\* The elements of a set of node names as a list, in NodeSeq order.
SeqOf(S) == SelectSeq(NodeSeq, LAMBDA n : n \in S)

V10 == <<"1", ".", "0">>

V11 == <<"1", ".", "1">>

V20 == <<"2", ".", "0">>

Dep(name) == [dict |-> TRUE, name |-> name]

BareDep(text) == [dict |-> FALSE, text |-> text]

Pkg(name, version, deps) ==
    [name |-> name, version |-> version, dependencies |-> deps,
     optional |-> <<>>, extra |-> {}, requires_dist |-> <<>>]

LockFile(pkgs) == [status |-> "ok", package |-> pkgs]

MissingLock == [status |-> "missing", package |-> <<>>]

MalformedLock == [status |-> "malformed", package |-> <<>>]

UndecodableLock == [status |-> "undecodable", package |-> <<>>]

Manifest(deps) ==
    [status |-> "ok", has_project |-> TRUE, dependencies |-> deps, optional |-> <<>>,
     has_groups |-> FALSE, groups |-> <<>>]

MissingManifest == [Manifest(<<>>) EXCEPT !.status = "missing"]

MalformedManifest == [Manifest(<<>>) EXCEPT !.status = "malformed"]

UndecodableManifest == [Manifest(<<>>) EXCEPT !.status = "undecodable"]

\* Group names: the extra "e" and the dependency group "d".
ge == <<"e">>

gd == <<"d">>

Group(name, deps) == [name |-> name, deps |-> deps]

GroupManifest(main, extras, groups) ==
    [Manifest(main) EXCEPT !.optional = extras, !.has_groups = TRUE, !.groups = groups]

\* `uv python find` fails: no interpreter, hence no metadata.
NoPython ==
    [find_returncode |-> 1, pyvenv_cfg |-> [exists |-> FALSE, lines |-> <<>>],
     site_packages |-> {}, dists |-> <<>>]

\* Most dependencies one lockfile entry declares in the graphs explored.
MaxDeps == 2

\* The lockfiles over Nodes: entry n depends on the packages deps[n].
DepChoices == {d \in [Nodes -> SUBSET Nodes] : \A n \in Nodes : Cardinality(d[n]) <= MaxDeps}

LockOfDeps(d) ==
    LockFile([i \in DOMAIN NodeSeq |->
                Pkg(NodeSeq[i], V10, [k \in DOMAIN SeqOf(d[NodeSeq[i]]) |->
                                        Dep(SeqOf(d[NodeSeq[i]])[k])])])

(***************************************************************************)
(* find_direct_ancestors as a process: one action per loop iteration.      *)
(***************************************************************************)
AncestorManifests ==
    {Manifest(SeqOf(D)) : D \in SUBSET Nodes}
    \cup {MissingManifest, MalformedManifest, UndecodableManifest,
          Manifest(<<na, <<"b", ">">> >>)}

InitAncestors ==
    /\ packaging = EitherRelease
    /\ lock \in {LockOfDeps(d) : d \in DepChoices} \cup {LockFile(<<>>)}
    /\ site = NoPython
    /\ pyproject \in AncestorManifests
    /\ packages = get_locked_packages_and_deps(lock, site, packaging).val
    /\ target \in Nodes \cup {nx}
    /\ pc = "fda_call"
    /\ direct = EmptyDict
    /\ queue = <<>>
    /\ visited = {}
    /\ ancestors = {}
    /\ ret = NoVal
    /\ exc = NoVal
    /\ uv = NoVal /\ flags = NoVal /\ outdated = NoVal /\ specifiers = NoVal
    /\ outdated_packages = NoVal /\ console = NoVal /\ arg = NoVal
    /\ dependency_groups = NoVal /\ calls = NoVal

FdaState == [queue |-> queue, visited |-> visited, ancestors |-> ancestors]

FdaAssign(st) ==
    /\ queue' = st.queue
    /\ visited' = st.visited
    /\ ancestors' = st.ancestors

\* Entry: `direct_deps = get_direct_dependencies()`, RuntimeError -> return set().
FdaCall ==
    /\ pc = "fda_call"
    /\ LET FdaEnter(d) ==
               IF d.ok
               THEN /\ direct' = d.val
                    /\ FdaAssign(FdaInitial(target))
                    /\ pc' = "fda_loop"
                    /\ UNCHANGED <<ret, exc>>
               ELSE IF d.exc = "RuntimeError"
               THEN /\ ret' = Ok({})
                    /\ pc' = "done"
                    /\ UNCHANGED <<direct, queue, visited, ancestors, exc>>
               ELSE /\ exc' = d
                    /\ pc' = "raised"
                    /\ UNCHANGED <<direct, queue, visited, ancestors, ret>>
       IN  FdaEnter(get_direct_dependencies(pyproject, packaging))
    /\ UNCHANGED <<envVars, dependency_groups, calls, packages, outdated, specifiers,
                   outdated_packages, console, target, arg>>

FdaUnchanged ==
    UNCHANGED <<envVars, dependency_groups, calls, packages, outdated, specifiers,
                outdated_packages, console, target, arg, direct, ret, exc, pc>>

\* `if current in visited: continue`
FdaSkipVisited ==
    /\ pc = "fda_loop" /\ queue # <<>>
    /\ Head(queue) \in visited
    /\ FdaAssign(FdaStep(packages, direct, FdaState))
    /\ FdaUnchanged

\* `if current not in packages: continue`
FdaDeadEnd ==
    /\ pc = "fda_loop" /\ queue # <<>>
    /\ Head(queue) \notin visited
    /\ Head(queue) \notin DOMAIN packages.idx
    /\ FdaAssign(FdaStep(packages, direct, FdaState))
    /\ FdaUnchanged

\* The for loop over the dependents of current.
FdaVisit ==
    /\ pc = "fda_loop" /\ queue # <<>>
    /\ Head(queue) \notin visited
    /\ Head(queue) \in DOMAIN packages.idx
    /\ FdaAssign(FdaStep(packages, direct, FdaState))
    /\ FdaUnchanged

\* `return ancestors`
FdaReturn ==
    /\ pc = "fda_loop" /\ queue = <<>>
    /\ ret' = Ok(ancestors)
    /\ pc' = "done"
    /\ UNCHANGED <<envVars, dependency_groups, calls, packages, outdated, specifiers,
                   outdated_packages, console, target, arg, direct, exc, queue, visited,
                   ancestors>>

NextAncestors == FdaCall \/ FdaSkipVisited \/ FdaDeadEnd \/ FdaVisit \/ FdaReturn

SpecAncestors == InitAncestors /\ [][NextAncestors]_vars

\* One iteration of `while queue`, or the return after it.
FdaLoop == FdaSkipVisited \/ FdaDeadEnd \/ FdaVisit \/ FdaReturn

\* The program runs on: a step that can be taken is taken.  FdaCall is
\* enabled exactly when pc = "fda_call" (get_direct_dependencies is total),
\* so its weak fairness is written with that guard in place of ENABLED.
LiveAncestors ==
    /\ SpecAncestors
    /\ []<>(pc # "fda_call") \/ []<><<FdaCall>>_vars
    /\ WF_vars(FdaLoop)

\* The names the manifest declares, canonical: the direct-dependency set.
DirectKeys(pp, rel) ==
    IF get_direct_dependencies(pp, rel).ok THEN DOMAIN get_direct_dependencies(pp, rel).val ELSE {}

\* The names of the packages on the Dependent edges of the node `name`.
DependentNames(graph, name) ==
    IF name \in DOMAIN graph.idx
    THEN {graph.objs[d.package].name : d \in Range(graph.objs[graph.idx[name]].dependents)}
    ELSE {}

RECURSIVE UpClosure(_, _)
UpClosure(graph, S) ==
    LET T == S \cup UNION {DependentNames(graph, n) : n \in S}
    IN  IF T = S THEN S ELSE UpClosure(graph, T)

\* The packages reached from `name` by one or more Dependent edges.
UpReach(graph, name) == UpClosure(graph, DependentNames(graph, name))

\* C2: every name find_direct_ancestors returns, and every name it has
\* recorded so far, is a key of the direct-dependency set, whatever the
\* graph (cyclic or not) and the target.
C2_AncestorsAreDirect ==
    /\ pc \in {"fda_loop", "done"} => ancestors \subseteq DirectKeys(pyproject, packaging)
    /\ pc = "done" => ret.val \subseteq DirectKeys(pyproject, packaging)

\* C2 witness: a search over a cyclic graph that walked through a package
\* that is not direct has returned an ancestor.
C2_Witness ==
    /\ pc = "done" /\ ret.val # {}
    /\ \E n \in visited : n # target /\ n \notin DirectKeys(pyproject, packaging) /\ n \in UpReach(packages, n)

\* C3: find_direct_ancestors returns every direct dependency that Dependent
\* edges lead to from the target, also through another direct dependency.
C3_AllReachableDirect ==
    (pc = "done" /\ pyproject.status = "ok")
        => (UpReach(packages, target) \cap DirectKeys(pyproject, packaging)) \subseteq ret.val

\* C4: the result is empty when the target is not a node of the graph and
\* when no chain of Dependent edges leads from it to a direct dependency.
C4_EmptyResult ==
    pc = "done" =>
        /\ target \notin DOMAIN packages.idx => ret.val = {}
        /\ UpReach(packages, target) \cap DirectKeys(pyproject, packaging) = {} => ret.val = {}

\* C4 witness: the target has dependents, the manifest declares direct
\* dependencies, none of them is above the target, and the result is empty.
C4_Witness ==
    /\ pc = "done" /\ ret.val = {}
    /\ target \in DOMAIN packages.idx
    /\ UpReach(packages, target) # {}
    /\ DirectKeys(pyproject, packaging) # {}
    /\ UpReach(packages, target) \cap DirectKeys(pyproject, packaging) = {}

\* No package is above itself.
Acyclic(graph) == \A n \in DOMAIN graph.idx : n \notin UpReach(graph, n)

\* C25 as stated: on a graph without cycles the search marks at most as many
\* names as the graph has nodes, whatever the target.
C25_VisitedAtMostNodes ==
    (pc \in {"fda_loop", "done"} /\ Acyclic(packages))
        => Cardinality(visited) <= Cardinality(DOMAIN packages.idx)

\* C25: on a graph without cycles every name marked is the target or a
\* node above it.  A call that could not read the manifest (it returns the
\* empty set at once, or raises) marks nothing; a search that has returned
\* has marked the target, and with it at most as many names as the graph has
\* nodes when the target is a node, and the target alone when it is not.
C25_VisitedNodesOrTarget ==
    Acyclic(packages) =>
        /\ pc \in {"fda_loop", "done"} =>
              /\ visited \subseteq {target} \cup UpReach(packages, target)
              /\ Cardinality(visited) <= Cardinality(DOMAIN packages.idx)
                                          + (IF target \in DOMAIN packages.idx THEN 0 ELSE 1)
        /\ (pc = "raised" \/ (pc = "done" /\ ~get_direct_dependencies(pyproject, packaging).ok)) =>
              visited = {}
        /\ (pc = "done" /\ get_direct_dependencies(pyproject, packaging).ok) =>
              /\ target \in visited
              /\ target \in DOMAIN packages.idx =>
                    /\ visited \subseteq DOMAIN packages.idx
                    /\ Cardinality(visited) <= Cardinality(DOMAIN packages.idx)
              /\ target \notin DOMAIN packages.idx => visited = {target}

\* C25 witness: a search over a graph without cycles has returned after it
\* marked every node of the graph.
C25_Witness ==
    /\ pc = "done" /\ Acyclic(packages)
    /\ visited = DOMAIN packages.idx
    /\ Cardinality(visited) >= 3

\* C5: find_direct_ancestors terminates on every graph and target, cycles
\* included: it returns (or raises at its first statement).
C5_Terminates == <>(pc \in {"done", "raised"})

\* C5 witness: the search has returned although the target lies on a cycle
\* of Dependent edges and a queued name was met a second time.
C5_Witness ==
    /\ pc = "done"
    /\ target \in UpReach(packages, target)
    /\ Cardinality(visited) >= 2

\* C15: every read of pyproject.toml is fail-hard: an operation that found
\* the file missing or unparseable does not return a normal result.
C15_ReadsFailHard == pc = "done" => pyproject.status = "ok"

\* C16: parsing a requirement string of the manifest never raises: with
\* pyproject.toml readable, whatever the strings in it, the operation that
\* parses them does not end with an exception.
C16_ParsingNeverRaises == pyproject.status = "ok" => pc # "raised"

(***************************************************************************)
(* is_locked_by_specifier applied to generated constraints and candidates. *)
(***************************************************************************)
\* Most clauses in a generated constraint.
MaxClauses == 2

LockedVersions == <<V10, V20>>

\* Every operator with 1.0, then every operator with 2.0.
ClauseSeq ==
    [i \in 1..(Len(OperatorTexts) * Len(LockedVersions)) |->
        OperatorTexts[((i - 1) % Len(OperatorTexts)) + 1]
            \o LockedVersions[((i - 1) \div Len(OperatorTexts)) + 1]]

Comma == <<",">>

\* The constraints of exactly n clauses joined by ",", the clauses taken
\* from position k of ClauseSeq on and in the order of ClauseSeq.
RECURSIVE ConstraintsFrom(_, _)
ConstraintsFrom(n, k) ==
    IF n = 1 THEN {ClauseSeq[i] : i \in k..Len(ClauseSeq)}
    ELSE UNION {{ClauseSeq[i] \o Comma \o c : c \in ConstraintsFrom(n - 1, i)} :
                    i \in k..Len(ClauseSeq)}

ConstraintsOf(n) == ConstraintsFrom(n, 1)

\* Constraints that are empty, blank, spaced out, out of that order, on a
\* pre-release, below a post-release (<1.0.post1), above a pre-release
\* (>1.0rc1), or not well formed.
OddConstraints ==
    { <<>>, <<" ">>, <<",">>,
      <<">", "=", " ", "1", ".", "0", " ", ",", " ", "<", " ", "2", ".", "0">>,
      <<"<", "2", ".", "0", ",", ">", "=", "1", ".", "0">>,
      <<">", "=", "1", ".", "0", "r", "c", "1">>,
      <<"<", "1", ".", "0", ".", "p", "o", "s", "t", "1">>,
      <<">", "1", ".", "0", "r", "c", "1">>,
      <<"a", "b", "c">>, <<"=", "1", ".", "0">>, <<">", "=">>,
      <<">", "=", "1", ".", "0", ",", "<">>, <<"~", "=", "1">> }

Constraints == OddConstraints \cup UNION {ConstraintsOf(n) : n \in 1..MaxClauses}

Candidates ==
    { V10, V11, V20, <<"1">>, <<"2", ".", "0", ".", "1">>, <<"x">>, <<>>,
      <<"2", ".", "0", "r", "c", "1">>, <<"1", ".", "0", ".", "p", "o", "s", "t", "1">>,
      <<"1", ".", "0", ".", "d", "e", "v", "1">>, <<"v", "1", ".", "0">> }

InitLocked ==
    /\ packaging \in PackagingReleases
    /\ arg \in [specifiers : {[n \in {na} |-> c] : c \in Constraints},
                 name : {na}, latest_version : Candidates]
               \cup [specifiers : {[n \in {na} |-> c] : c \in OddConstraints},
                      name : {nb}, latest_version : Candidates]
    /\ pc = "locked_call"
    /\ ret = NoVal /\ exc = NoVal
    /\ uv = NoVal /\ lock = NoVal /\ pyproject = NoVal /\ site = NoVal /\ flags = NoVal
    /\ outdated = NoVal /\ packages = NoVal /\ direct = NoVal /\ specifiers = NoVal
    /\ outdated_packages = NoVal /\ console = NoVal
    /\ dependency_groups = NoVal /\ calls = NoVal
    /\ target = NoVal /\ queue = NoVal /\ visited = NoVal /\ ancestors = NoVal

LockedResult == is_locked_by_specifier(arg.specifiers, arg.name, arg.latest_version, packaging)

\* The call returns a boolean.
LockedReturn ==
    /\ pc = "locked_call"
    /\ LET LockedReturns(r) == r.ok /\ ret' = r /\ pc' = "done"
       IN  LockedReturns(LockedResult)
    /\ UNCHANGED <<envVars, cliVars, fdaVars, arg, exc>>

\* The call raises (InvalidVersion is not among the exceptions it catches).
LockedRaise ==
    /\ pc = "locked_call"
    /\ LET LockedRaises(r) == ~r.ok /\ exc' = r /\ pc' = "raised"
       IN  LockedRaises(LockedResult)
    /\ UNCHANGED <<envVars, cliVars, fdaVars, arg, ret>>

NextLocked == LockedReturn \/ LockedRaise

SpecLocked == InitLocked /\ [][NextLocked]_vars

\* A constraint is on record for the name, it is not empty and it parses.
OnRecord(a) ==
    /\ a.name \in DOMAIN a.specifiers
    /\ a.specifiers[a.name] # <<>>
    /\ SpecifierSet(a.specifiers[a.name]).ok

\* Some clause of the recorded constraint rejects the candidate.
FailsSomeClause(a, rel) ==
    LET Fails(clauses, candidate) ==
            \E i \in DOMAIN clauses : ~ClauseContains(clauses[i], candidate, rel)
    IN  Fails(SpecifierSet(a.specifiers[a.name]).val, Version(a.latest_version).val)

\* C6: for a candidate that is a version, is_locked_by_specifier returns
\* TRUE exactly when a well-formed, non-empty constraint is on record for
\* the name and the candidate fails one of its clauses; it returns FALSE
\* for a missing, an empty and a malformed constraint whatever the
\* candidate, and when the candidate satisfies every clause.
C6_LockedIff ==
    pc \in {"done", "raised"} =>
        /\ Version(arg.latest_version).ok =>
              /\ pc = "done"
              /\ ret = Ok(OnRecord(arg) /\ FailsSomeClause(arg, packaging))
        /\ ~OnRecord(arg) => pc = "done" /\ ret = Ok(FALSE)

\* C30: is_locked_by_specifier ends with a boolean and raises nothing for
\* every input, also for a candidate that is no version while a well-formed
\* constraint is on record for the name.
C30_AlwaysBoolean ==
    /\ pc # "raised"
    /\ pc = "done" => ret.val \in BOOLEAN

\* C6 witness: a two-clause constraint whose first clause the candidate
\* satisfies and whose second it fails has been judged locked.
C6_Witness ==
    /\ pc = "done" /\ ret = Ok(TRUE)
    /\ OnRecord(arg)
    /\ Len(SpecifierSet(arg.specifiers[arg.name]).val) = 2
    /\ ClauseContains(SpecifierSet(arg.specifiers[arg.name]).val[1],
                      Version(arg.latest_version).val, packaging)
    /\ ~ClauseContains(SpecifierSet(arg.specifiers[arg.name]).val[2],
                       Version(arg.latest_version).val, packaging)

(***************************************************************************)
(* get_locked_packages_and_deps applied to generated lockfiles and         *)
(* environments.                                                           *)
(***************************************************************************)
\* Most dependencies one generated lockfile entry declares.
MaxGraphDeps == 2

nA == <<"A">>

\* Dependency declarations: {name = "B"}, the bare string "a >=1", a name
\* that is not locked, and a table without a name.
GraphDeps == <<Dep(<<"B">>), BareDep(<<"a", " ", ">", "=", "1">>), Dep(nx), Dep(<<>>)>>

\* The dependency lists drawn from GraphDeps, in GraphDeps order.
GraphDepLists ==
    {SelectSeq(GraphDeps, LAMBDA d : d \in S) :
        S \in {T \in SUBSET Range(GraphDeps) : Cardinality(T) <= MaxGraphDeps}}

\* The entry names of the generated lockfiles: the second one locks "a"
\* twice, spelled "a" and "A".
GraphNameLists == {<<na, nb>>, <<na, nb, nA>>}

\* The version locked by the i-th entry.
GraphVersions == <<V10, V11, V20>>

GraphExtras == {<<>>, <<[extra |-> <<"x">>, deps |-> <<Dep(na)>>]>>}

\* The dependency lists of the i-th entry: the third entry, which locks "a"
\* a second time, declares nothing or {name = "B"}.
GraphDepListsOf(i) == IF i <= 2 THEN GraphDepLists ELSE {<<>>, <<Dep(<<"B">>)>>}

GraphDepChoices(names) ==
    {deps \in [DOMAIN names -> GraphDepLists \cup GraphDepListsOf(3)] :
        \A i \in DOMAIN names : deps[i] \in GraphDepListsOf(i)}

GraphLocks ==
    UNION {{LockFile([i \in DOMAIN names |->
                        [Pkg(names[i], GraphVersions[i], deps[i])
                            EXCEPT !.optional = IF i = 2 THEN ex ELSE <<>>]]) :
                deps \in GraphDepChoices(names), ex \in GraphExtras} :
           names \in GraphNameLists}

\* pyvenv.cfg contents.
CfgHome == <<"h", "o", "m", "e", " ", "=", " ", "/", "u">>

CfgVersion == VersionWord \o <<" ", "=", " ", "3", ".", "1", "2", ".", "1">>

CfgVersionNoEquals == VersionWord \o <<" ", "3", ".", "1", "2">>

Py312 == <<"3", ".", "1", "2">>

\* Installed metadata: "a" has a summary and constrains "b".
GraphDists ==
    <<[Name |-> nA, Version |-> V10, Summary |-> <<"S">>,
       Requires_Dist |-> << <<"b", ">", "=", "1", ".", "0">> >>]>>

SiteOf(rc, exists, lines, dirs) ==
    [find_returncode |-> rc, pyvenv_cfg |-> [exists |-> exists, lines |-> lines],
     site_packages |-> dirs, dists |-> GraphDists]

\* `uv python find` succeeds but <venv>/pyvenv.cfg does not exist.
NoPyvenvCfg == SiteOf(0, FALSE, <<>>, {Py312})

NoVersionLine == SiteOf(0, TRUE, <<CfgHome>>, {Py312})

VersionLineNoEquals == SiteOf(0, TRUE, <<CfgHome, CfgVersionNoEquals>>, {Py312})

NoSitePackagesDir == SiteOf(0, TRUE, <<CfgHome, CfgVersion>>, {})

Installed == SiteOf(0, TRUE, <<CfgHome, CfgVersion>>, {Py312})

\* "a" installed with the lines "b>" (no requirement), "B>=1.0rc1" and "b<2.0";
\* b installed with the line "a>" only; "a" is recorded under its raw name.
InstalledLines ==
    [Installed EXCEPT !.dists =
        <<[Name |-> nA, Version |-> V10, Summary |-> <<"S">>,
           Requires_Dist |-> << <<"b", ">">>, <<"B", ">", "=", "1", ".", "0", "r", "c", "1">>,
                                <<"b", "<", "2", ".", "0">> >>],
          [Name |-> nb, Version |-> V10, Summary |-> <<>>,
           Requires_Dist |-> << <<"a", ">">> >>]>>]

\* "a" installed with the line "b>=1.0,>=1", which holds one clause twice.
InstalledRepeated ==
    [Installed EXCEPT !.dists =
        <<[Name |-> nA, Version |-> V10, Summary |-> <<"S">>,
           Requires_Dist |-> << <<"b", ">", "=", "1", ".", "0", ",", ">", "=", "1">> >>]>>]

GraphSites ==
    {NoPython, NoPyvenvCfg, NoVersionLine, VersionLineNoEquals, NoSitePackagesDir, Installed,
     InstalledLines, InstalledRepeated}

InitGraph ==
    /\ packaging \in PackagingReleases
    /\ lock \in GraphLocks \cup {MissingLock, MalformedLock, UndecodableLock}
    /\ site \in GraphSites
    /\ pc = "graph_call"
    /\ packages = NoVal /\ ret = NoVal /\ exc = NoVal
    /\ uv = NoVal /\ pyproject = NoVal /\ flags = NoVal
    /\ outdated = NoVal /\ direct = NoVal /\ specifiers = NoVal
    /\ outdated_packages = NoVal /\ console = NoVal /\ arg = NoVal
    /\ dependency_groups = NoVal /\ calls = NoVal
    /\ target = NoVal /\ queue = NoVal /\ visited = NoVal /\ ancestors = NoVal

\* One call: it returns the graph, or it raises.
GraphCall ==
    /\ pc = "graph_call"
    /\ LET GraphResult(r) ==
               IF r.ok
               THEN /\ packages' = r.val
                    /\ pc' = "done"
                    /\ UNCHANGED exc
               ELSE /\ exc' = r
                    /\ pc' = "raised"
                    /\ UNCHANGED packages
       IN  GraphResult(get_locked_packages_and_deps(lock, site, packaging))
    /\ UNCHANGED <<envVars, dependency_groups, calls, outdated, direct, specifiers,
                   outdated_packages, console, fdaVars, arg, ret>>

NextGraph == GraphCall

SpecGraph == InitGraph /\ [][NextGraph]_vars

\* The Package objects that are nodes of the graph (values of the dict).
NodesOf(graph) == {graph.idx[n] : n \in DOMAIN graph.idx}

\* C7: after get_locked_packages_and_deps no Dependent edge dangles: for
\* every node and every Dependent on its dependents list, the depending
\* package's name is a key of the graph and the node stored under that key
\* is the very object the Dependent refers to.
C7_NoDanglingEdges ==
    pc = "done" =>
        \A i \in NodesOf(packages) :
            \A k \in DOMAIN packages.objs[i].dependents :
                LET p == packages.objs[i].dependents[k].package
                IN  /\ packages.objs[p].name \in DOMAIN packages.idx
                    /\ packages.idx[packages.objs[p].name] = p

\* C7 witness: the lockfile locks one name twice, the earlier entry declares
\* a dependency, and the graph built holds the edge for it.
C7_Witness ==
    /\ pc = "done"
    /\ \E i \in DOMAIN lock.package :
          /\ NodeIndex(lock.package, EntryName(lock.package, i)) # i
          /\ \E d \in DOMAIN lock.package[i].dependencies :
                LET n == ParseDependencyName(lock.package[i].dependencies[d]).val
                IN  /\ n \in DOMAIN packages.idx
                    /\ \E k \in DOMAIN packages.objs[packages.idx[n]].dependents :
                          packages.objs[packages.objs[packages.idx[n]].dependents[k].package].name
                              = EntryName(lock.package, i)

\* The graph built from the same lockfile with the metadata provider
\* failing as in the environment st.
GraphWithout(st, rel) == get_locked_packages_and_deps(lock, st, rel)

\* Same nodes (keys, names, versions) and same Dependent edges.
SameNodesAndEdges(g, h) ==
    /\ g.keys = h.keys
    /\ g.idx = h.idx
    /\ DOMAIN g.objs = DOMAIN h.objs
    /\ \A i \in DOMAIN g.objs :
          /\ g.objs[i].name = h.objs[i].name
          /\ g.objs[i].version = h.objs[i].version
          /\ g.objs[i].dependents = h.objs[i].dependents

\* C17: the graph get_locked_packages_and_deps builds with the installed
\* metadata present has the same nodes, with the same canonical names and
\* versions, and the same Dependent edges as the graph it builds from the
\* same lockfile in every environment where the metadata provider fails.
C17_SameGraphWithoutMetadata ==
    (pc = "done" /\ get_all_metadata_from_site_packages(site).ok) =>
        \A st \in GraphSites :
            (~get_all_metadata_from_site_packages(st).ok /\ GraphWithout(st, packaging).ok) =>
                SameNodesAndEdges(packages, GraphWithout(st, packaging).val)

\* C17 witness: the graph was built with metadata that gives "a" a summary
\* and its requirement on b a constraint; b has a Dependent edge; without
\* the interpreter the graph is built too, and its summary of "a" is empty.
C17_Witness ==
    /\ pc = "done" /\ site = Installed
    /\ na \in DOMAIN packages.idx /\ nb \in DOMAIN packages.idx
    /\ packages.objs[packages.idx[na]].summary # <<>>
    /\ packages.objs[packages.idx[nb]].dependents # <<>>
    /\ \E g \in DOMAIN packages.objs[packages.idx[na]].requires :
          \E k \in DOMAIN packages.objs[packages.idx[na]].requires[g].dependencies :
              packages.objs[packages.idx[na]].requires[g].dependencies[k].specifier # <<>>
    /\ GraphWithout(NoPython, packaging).ok
    /\ GraphWithout(NoPython, packaging).val.objs[packages.idx[na]].summary = <<>>
    /\ GraphWithout(NoPython, packaging).val # packages

\* C18: after get_locked_packages_and_deps the `through` of every Dependent
\* edge on every node is "" or a key of the requires mapping of the
\* depending package, and the DependencyGroup stored under the key g of a
\* package's requires has the name g.
C18_ThroughIsGroupKey ==
    pc = "done" =>
        \A n \in DOMAIN packages.idx :
            /\ \A k \in DOMAIN packages.objs[packages.idx[n]].dependents :
                  \/ packages.objs[packages.idx[n]].dependents[k].through = <<>>
                  \/ packages.objs[packages.idx[n]].dependents[k].through
                        \in DOMAIN packages.objs[
                               packages.objs[packages.idx[n]].dependents[k].package].requires
            /\ \A g \in DOMAIN packages.objs[packages.idx[n]].requires :
                  packages.objs[packages.idx[n]].requires[g].name = g

\* C18 witness: a node has a Dependent edge through an extra of the
\* depending package, which keeps that extra's group in its requires.
C18_Witness ==
    /\ pc = "done"
    /\ \E n \in DOMAIN packages.idx :
          \E k \in DOMAIN packages.objs[packages.idx[n]].dependents :
              /\ packages.objs[packages.idx[n]].dependents[k].through # <<>>
              /\ packages.objs[packages.idx[n]].dependents[k].through
                    \in DOMAIN packages.objs[
                           packages.objs[packages.idx[n]].dependents[k].package].requires

\* The dependency names a node of the graph no lockfile entry creates.
IsUnknownDep(pkgs, dep) ==
    /\ ParseDependencyName(dep).ok
    /\ ParseDependencyName(dep).val # <<>>
    /\ ParseDependencyName(dep).val \notin {EntryName(pkgs, i) : i \in DOMAIN pkgs}

\* The lockfile with every such dependency taken out of its list.
WithoutUnknown(lk) ==
    [lk EXCEPT !.package =
        [i \in DOMAIN lk.package |->
            [lk.package[i] EXCEPT
                !.dependencies =
                    SelectSeq(lk.package[i].dependencies,
                              LAMBDA d : ~IsUnknownDep(lk.package, d)),
                !.optional =
                    [k \in DOMAIN lk.package[i].optional |->
                        [extra |-> lk.package[i].optional[k].extra,
                         deps |-> SelectSeq(lk.package[i].optional[k].deps,
                                            LAMBDA d : ~IsUnknownDep(lk.package, d))]]]]]

\* The object stored under the name of entry i records, in its group g, a
\* requirement named n.
Recorded(i, g, n) ==
    /\ g \in DOMAIN packages.objs[ParentObject(lock.package, i)].requires
    /\ \E k \in DOMAIN packages.objs[ParentObject(lock.package, i)].requires[g].dependencies :
          canonicalize_name(
              packages.objs[ParentObject(lock.package, i)].requires[g].dependencies[k].name) = n

\* The node X has a Dependent edge through g whose package is the node P.
ReverseEdge(x, g, p) ==
    \E d \in Range(packages.objs[packages.idx[x]].dependents) :
        d.through = g /\ d.package = packages.idx[p]

\* The group g of the node P holds a requirement whose canonical name is X.
ForwardEdge(p, g, x) ==
    /\ g \in DOMAIN packages.objs[packages.idx[p]].requires
    /\ \E r \in Range(packages.objs[packages.idx[p]].requires[g].dependencies) :
          canonicalize_name(r.name) = x

\* C26: after the build forward and reverse edges agree: the dependents of
\* the node X hold an edge (through g, package P) iff requires[g] of the node
\* P holds a requirement whose canonical name is X, whatever the order of the
\* lockfile entries and also with several entries of one canonical name.
C26_EdgesAgree ==
    pc = "done" =>
        \A p \in DOMAIN packages.idx : \A x \in DOMAIN packages.idx :
            \A g \in {<<>>} \cup DOMAIN packages.objs[packages.idx[p]].requires
                     \cup {d.through : d \in Range(packages.objs[packages.idx[x]].dependents)} :
                ReverseEdge(x, g, p) <=> ForwardEdge(p, g, x)

\* C21: a lockfile dependency whose name is not a node of the graph raises
\* no error and creates no Dependent edge: the build ends as it does for
\* the lockfile without these dependencies, with the same dependents on
\* every node; and the requirement is recorded in the group of the owning
\* package it was declared in.
C21_UnknownDependencyDropped ==
    (pc \in {"done", "raised"} /\ lock.status = "ok") =>
        /\ pc = "done" <=> get_locked_packages_and_deps(WithoutUnknown(lock), site, packaging).ok
        /\ pc = "done" =>
              /\ \A i \in DOMAIN packages.objs :
                    packages.objs[i].dependents
                      = get_locked_packages_and_deps(WithoutUnknown(lock), site, packaging).val.objs[i].dependents
              /\ \A s \in Range(DepSites(lock.package)) :
                    IsUnknownDep(lock.package, s.dep) =>
                        Recorded(s.owner, s.group, ParseDependencyName(s.dep).val)

\* The requirement is a bare name: no constraint and no marker.
IsBareName(req) == req.specifier = <<>> /\ ~req.has_marker

\* site_metadata_by_name as the graph builder sees it: empty when the
\* provider fails.
MetadataSeen ==
    IF get_all_metadata_from_site_packages(site).ok
    THEN get_all_metadata_from_site_packages(site).val ELSE EmptyDict

\* The positions of the lines of `owner` that parse to a requirement on d.
LinesNaming(owner, d, rel) ==
    IF owner \notin DOMAIN MetadataSeen THEN {}
    ELSE {i \in DOMAIN MetadataSeen[owner].requires_dist :
            /\ Requirement(MetadataSeen[owner].requires_dist[i], rel).ok
            /\ canonicalize_name(Requirement(MetadataSeen[owner].requires_dist[i], rel).val.name) = d}

\* The requirement the overlay gives dependency d of `owner`.
Overlaid(owner, d, rel) ==
    IF LinesNaming(owner, d, rel) = {} THEN Requirement(d, rel).val
    ELSE Requirement(MetadataSeen[owner].requires_dist[
             CHOOSE i \in LinesNaming(owner, d, rel) : \A j \in LinesNaming(owner, d, rel) : i <= j], rel).val

\* C22: every requirement a node holds for a dependency d is built from
\* the first line of the node's installed metadata that parses to a
\* requirement with the canonical name d, and is the bare name d when
\* there is no such line or no metadata; the summary of a node is the
\* summary its metadata records under its canonical name, empty if none.
C22_MetadataOverlay ==
    pc = "done" =>
        \A i \in DOMAIN packages.objs :
            /\ packages.objs[i].summary
                  = IF packages.objs[i].name \in DOMAIN MetadataSeen
                    THEN MetadataSeen[packages.objs[i].name].summary ELSE <<>>
            /\ \A g \in DOMAIN packages.objs[i].requires :
                  \A k \in DOMAIN packages.objs[i].requires[g].dependencies :
                      packages.objs[i].requires[g].dependencies[k]
                        = Overlaid(packages.objs[i].name,
                                   canonicalize_name(
                                       packages.objs[i].requires[g].dependencies[k].name), packaging)

\* C22 witness: the metadata of "a" has a line that does not parse and two
\* lines naming b; the requirement of "a" on b carries the constraint of
\* the first of the two; b, whose one line does not parse, holds the bare
\* name "a"; x, named by no line, is a bare name too.
C22_Witness ==
    /\ pc = "done" /\ site = InstalledLines
    /\ packages.objs[packages.idx[na]].summary = <<"S">>
    /\ <<>> \in DOMAIN packages.objs[packages.idx[na]].requires
    /\ \E k \in DOMAIN packages.objs[packages.idx[na]].requires[<<>>].dependencies :
          /\ packages.objs[packages.idx[na]].requires[<<>>].dependencies[k].name = <<"B">>
          /\ packages.objs[packages.idx[na]].requires[<<>>].dependencies[k].specifier
                = <<">", "=", "1", ".", "0", "r", "c", "1">>
    /\ \E k \in DOMAIN packages.objs[packages.idx[na]].requires[<<>>].dependencies :
          /\ packages.objs[packages.idx[na]].requires[<<>>].dependencies[k].name = nx
          /\ IsBareName(packages.objs[packages.idx[na]].requires[<<>>].dependencies[k])
    /\ <<>> \in DOMAIN packages.objs[packages.idx[nb]].requires
    /\ \E k \in DOMAIN packages.objs[packages.idx[nb]].requires[<<>>].dependencies :
          /\ packages.objs[packages.idx[nb]].requires[<<>>].dependencies[k].name = na
          /\ IsBareName(packages.objs[packages.idx[nb]].requires[<<>>].dependencies[k])

\* C10: whatever way the metadata provider fails,
\* get_locked_packages_and_deps still returns the graph: every node keeps
\* its name and version, every summary is empty and every requirement is a
\* bare name.
C10_MetadataNeverFatal ==
    (pc \in {"done", "raised"} /\ lock.status = "ok"
        /\ ~get_all_metadata_from_site_packages(site).ok) =>
        /\ pc = "done"
        /\ \A n \in DOMAIN packages.idx :
              LET o == packages.objs[packages.idx[n]]
              IN  /\ o.name = n
                  /\ o.version = lock.package[packages.idx[n]].version
                  /\ o.summary = <<>>
                  /\ \A g \in DOMAIN o.requires :
                        \A k \in DOMAIN o.requires[g].dependencies :
                            IsBareName(o.requires[g].dependencies[k])

(***************************************************************************)
(* cli                                                     __main__.py:31 *)
(*                                                                         *)
(* flags = [direct_only, transitive_only, group_by_ancestor, show_why,     *)
(*          show_headers].  console is the list of things printed, each a  *)
(* record [line |-> kind, ...].  An entry of outdated_packages is the      *)
(* tuple (name, pkg, outdated_pkg, is_direct), pkg a heap index.           *)
(***************************************************************************)
\* The loop body of the reconciliation up to `outdated_packages.append`.
Qualifies_FiltersIgnored(name, outd, drct, fl) == name \in DOMAIN outd

Qualifies(name, outd, drct, fl) ==
    /\ name \in DOMAIN outd
    /\ ~(fl.direct_only /\ name \notin DOMAIN drct)
    /\ ~(fl.transitive_only /\ name \in DOMAIN drct)

\* `for name, pkg in packages.items(): ...`
OutdatedPackages(graph, outd, drct, fl) ==
    LET OutdatedTuples(kept) ==     \* `outdated_packages.append((name, pkg, ...))`
            [i \in DOMAIN kept |->
                [name |-> kept[i], pkg |-> graph.idx[kept[i]],
                 outdated_pkg |-> outd[kept[i]], is_direct |-> kept[i] \in DOMAIN drct]]
    IN  OutdatedTuples(SelectSeq(graph.keys, LAMBDA n : Qualifies(n, outd, drct, fl)))

\* console.print(f"[red]Error: {e}[/red]")
ErrorLine(e) == [line |-> "error", error |-> e]

\* The lines printed when outdated_packages is empty.
NoOutdatedReport(graph, outd) ==
    IF DOMAIN outd = {}
    THEN <<[line |-> "No outdated packages found."],
           [line |-> "Note: Could not check for outdated packages (no virtual environment)."],
           [line |-> "Total packages in uv.lock: ", count |-> Len(graph.keys)]>>
    ELSE <<[line |-> "No outdated packages found."],
           [line |-> "Total packages: ", count |-> Len(graph.keys)],
           [line |-> "Checked packages for updates", count |-> Cardinality(DOMAIN outd)]>>

\* `table.add_column(...)`: the column headers.
TableColumns(show_why) ==
    <<"Package", "Current", "Latest">>
    \o (IF show_why THEN <<"Constraint", "Dependents">> ELSE <<>>)
    \o <<"Description">>

\* The loop over section_order: the sections of the table in order, each
\* the list of its rows, and the number of find_direct_ancestors calls made
\* on the way; `result` is the error of the first row that raised, if any.
TableSections(groups, graph, specs, fl, pp, rel) ==
    LET TitleRows(g) ==         \* `if section_title: table.add_row(...)`
            IF g = <<>> THEN <<>>
            ELSE << <<Markup("bold blue", <<"\\[group:">> \o g \o <<"]">>)>>
                    \o [i \in 1..(IF fl.show_why THEN 5 ELSE 3) |-> <<>>] >>
        SectionOf(g, rows) == IF rows.ok THEN Ok(TitleRows(g) \o rows.val) ELSE rows
        Rows(g) ==
            IF fl.group_by_ancestor
            THEN generate_grouped_rows(groups[g], graph, specs, fl.show_why, pp, rel)
            ELSE generate_normal_rows(groups[g], graph, specs, fl.show_why, rel)
        Searches(g) ==          \* one find_direct_ancestors call per transitive package
            IF fl.group_by_ancestor
            THEN Len(SelectSeq(groups[g], LAMBDA t : ~t.is_direct)) ELSE 0
        Entered(shown, results) ==      \* the sections whose rows were asked for
            IF AllOk(results).ok THEN DOMAIN shown
            ELSE 1..FirstIndex({k \in DOMAIN results : ~results[k].ok})
        Built(shown, results) ==
            [result |-> AllOk(results),
             searches |-> Len(Concat([k \in DOMAIN shown |->
                              IF k \in Entered(shown, results)
                              THEN [j \in 1..Searches(shown[k]) |-> k] ELSE <<>>]))]
        Sections(shown) == Built(shown, [k \in DOMAIN shown |-> SectionOf(shown[k], Rows(shown[k]))])
    IN  Sections(SelectSeq(<< <<>> >> \o SortedTexts(DOMAIN groups \ {<<>>}),
                           LAMBDA g : g \in DOMAIN groups /\ groups[g] # <<>>))

\* `console.print(table)`
TableLine(fl, sections) ==
    [line |-> "table", show_header |-> fl.show_headers,
     columns |-> TableColumns(fl.show_why), sections |-> sections]

\* No collaborator called, no file read yet.
NoCalls == [resolver |-> 0, metadata |-> 0, manifest |-> 0, lockfile |-> 0]

\* The counters after some more calls and reads.
Counted(c, resolver, metadata, manifest, lockfile) ==
    [resolver |-> c.resolver + resolver, metadata |-> c.metadata + metadata,
     manifest |-> c.manifest + manifest, lockfile |-> c.lockfile + lockfile]

\* Most items in a list the resolver prints.
MaxItems == 3

ResolverItem(name, version, latest) ==
    JObject([name |-> JString(name), version |-> JString(version),
             latest_version |-> JString(latest)])

\* Items of the resolver's list: records for "A", "b" and "x" (not locked).
ResolverItems ==
    {ResolverItem(nA, V10, V20), ResolverItem(nb, V10, V11), ResolverItem(nx, V10, V20)}

\* An object without latest_version.
ShortItem == JObject([name |-> JString(nb), version |-> JString(V10)])

RECURSIVE ListsOf(_, _)
ListsOf(S, n) ==
    IF n = 0 THEN {<<>>}
    ELSE ListsOf(S, n - 1) \cup {Append(l, x) : l \in ListsOf(S, n - 1), x \in S}

\* The lists of at most n members of S, no member twice.
RECURSIVE DistinctListsOf(_, _)
DistinctListsOf(S, n) ==
    IF n = 0 THEN {<<>>}
    ELSE DistinctListsOf(S, n - 1)
         \cup UNION {{Append(l, x) : x \in S \ Range(l)} : l \in DistinctListsOf(S, n - 1)}

Stdout(v) == [json |-> TRUE, value |-> v]

NotJson == [json |-> FALSE]

\* What `uv pip list --outdated --format=json` may give.
ResolverRuns ==
    {[returncode |-> 2, stdout |-> NotJson], [returncode |-> 0, stdout |-> NotJson]}
    \cup {[returncode |-> 0, stdout |-> Stdout(v)] :
            v \in {JNull, JNumber, JString(<<"o", "k">>), JObject(EmptyDict),
                   JObject([packages |-> JList(<<>>)]), JList(<<JNumber>>),
                   JList(<<ShortItem>>), JList(<<ResolverItem(nA, V10, V20), ShortItem>>)}
                  \cup {JList(l) : l \in ListsOf(ResolverItems, MaxItems)}}

\* "A" depends on b and c stands alone; or c depends on "A" and b, and "A"
\* on b.
CliLocks ==
    {LockFile(<<Pkg(nA, V10, <<Dep(nb)>>), Pkg(nb, V10, <<>>), Pkg(nc, V11, <<>>)>>),
     LockFile(<<Pkg(nc, V11, <<Dep(nA), Dep(nb)>>), Pkg(nA, V10, <<Dep(nb)>>),
                Pkg(nb, V10, <<>>)>>),
     LockFile(<<>>), MissingLock, MalformedLock, UndecodableLock}

\* The last two declare a and c, and c under the extra "e" only.
CliManifests ==
    {Manifest(<<na>>), Manifest(<< <<"B", ">", "=", "1", ".", "0">>, nc>>),
     MissingManifest, MalformedManifest, UndecodableManifest,
     Manifest(<<na, nc>>), GroupManifest(<<>>, <<Group(ge, <<nc>>)>>, <<>>)}

\* Every filter with and without --group-by-ancestor; --no-why with
\* --group-by-ancestor and no filter.
CliFlags ==
    {f \in [direct_only : BOOLEAN, transitive_only : BOOLEAN, group_by_ancestor : BOOLEAN,
            show_why : BOOLEAN, show_headers : {FALSE}] :
        f.show_why \/ (f.group_by_ancestor /\ ~f.direct_only /\ ~f.transitive_only)}

\* No filter, the flat table with its constraint columns.
NoFilters ==
    [direct_only |-> FALSE, transitive_only |-> FALSE, group_by_ancestor |-> FALSE,
     show_why |-> TRUE, show_headers |-> FALSE]

\* An invocation that stops at the read of uv.lock reads neither the
\* manifest nor the environment nor a flag, one that stops at the read of
\* pyproject.toml no flag: they start with one value of what they never read.
Init ==
    /\ packaging = EitherRelease
    /\ uv \in ResolverRuns
    /\ lock \in CliLocks
    /\ pyproject \in CliManifests
    /\ site \in {NoPython, Installed}
    /\ flags \in CliFlags
    /\ lock.status # "ok" => pyproject = Manifest(<<na>>) /\ site = NoPython
    /\ (lock.status # "ok" \/ pyproject.status # "ok") => flags = NoFilters
    /\ pc = "cli_outdated"
    /\ console = <<>>
    /\ calls = NoCalls
    /\ outdated = NoVal /\ packages = NoVal /\ direct = NoVal /\ specifiers = NoVal
    /\ outdated_packages = NoVal /\ dependency_groups = NoVal
    /\ exc = NoVal /\ ret = NoVal /\ arg = NoVal
    /\ target = NoVal /\ queue = NoVal /\ visited = NoVal /\ ancestors = NoVal

\* `except Exception as e: console.print(...); raise`
CliFail(e) ==
    /\ console' = Append(console, ErrorLine(e))
    /\ exc' = e
    /\ pc' = "raised"

\* `outdated = get_uv_outdated()`: one run of the resolver.
CliGetUvOutdated ==
    /\ pc = "cli_outdated"
    /\ LET CliOutdated(r) ==
               IF r.ok
               THEN outdated' = r.val /\ pc' = "cli_packages" /\ UNCHANGED <<console, exc>>
               ELSE CliFail(r) /\ UNCHANGED outdated
       IN  CliOutdated(get_uv_outdated(uv))
    /\ calls' = Counted(calls, 1, 0, 0, 0)
    /\ UNCHANGED <<envVars, packages, direct, specifiers, outdated_packages,
                   dependency_groups, fdaVars, arg, ret>>

\* `packages = get_locked_packages_and_deps()`: it opens uv.lock and, once
\* that is parsed, asks for the installed metadata.
CliGetLockedPackagesAndDeps ==
    /\ pc = "cli_packages"
    /\ LET CliPackages(r) ==
               IF r.ok
               THEN packages' = r.val /\ pc' = "cli_direct" /\ UNCHANGED <<console, exc>>
               ELSE CliFail(r) /\ UNCHANGED packages
       IN  CliPackages(get_locked_packages_and_deps(lock, site, packaging))
    /\ calls' = Counted(calls, 0, IF lock.status = "ok" THEN 1 ELSE 0, 0, 1)
    /\ UNCHANGED <<envVars, outdated, direct, specifiers, outdated_packages,
                   dependency_groups, fdaVars, arg, ret>>

\* `direct = get_direct_dependencies()`: it opens pyproject.toml.
CliGetDirectDependencies ==
    /\ pc = "cli_direct"
    /\ LET CliDirect(r) ==
               IF r.ok
               THEN direct' = r.val /\ pc' = "cli_specifiers" /\ UNCHANGED <<console, exc>>
               ELSE CliFail(r) /\ UNCHANGED direct
       IN  CliDirect(get_direct_dependencies(pyproject, packaging))
    /\ calls' = Counted(calls, 0, 0, 1, 0)
    /\ UNCHANGED <<envVars, outdated, packages, specifiers, outdated_packages,
                   dependency_groups, fdaVars, arg, ret>>

\* `specifiers = get_package_specifiers(packages)`, outside the try block:
\* it opens uv.lock and asks for the installed metadata itself.
CliGetPackageSpecifiers ==
    /\ pc = "cli_specifiers"
    /\ LET CliSpecifiers(r) ==
               IF r.ok
               THEN specifiers' = r.val /\ pc' = "cli_reconcile" /\ UNCHANGED exc
               ELSE exc' = r /\ pc' = "raised" /\ UNCHANGED specifiers
       IN  CliSpecifiers(get_package_specifiers(lock, site, packaging))
    /\ calls' = Counted(calls, 0, 1, 0, 1)
    /\ UNCHANGED <<envVars, outdated, packages, direct, outdated_packages,
                   dependency_groups, console, fdaVars, arg, ret>>

\* The reconciliation loop; the rows are built from its list.
CliReconcile ==
    /\ pc = "cli_reconcile"
    /\ LET CliCollected(list) ==
               /\ outdated_packages' = list
               /\ pc' = IF list = <<>> THEN "cli_report_none" ELSE "cli_group"
       IN  CliCollected(OutdatedPackages(packages, outdated, direct, flags))
    /\ UNCHANGED <<envVars, outdated, packages, direct, specifiers, dependency_groups,
                   calls, console, exc, fdaVars, arg, ret>>

\* `if not outdated_packages: ...; return`
CliReportNone ==
    /\ pc = "cli_report_none"
    /\ console' = console \o NoOutdatedReport(packages, outdated)
    /\ pc' = "done"
    /\ UNCHANGED <<envVars, outdated, packages, direct, specifiers, outdated_packages,
                   dependency_groups, calls, exc, fdaVars, arg, ret>>

\* `dependency_groups = group_packages_by_dependency_groups(outdated_packages)`:
\* it opens pyproject.toml itself.
CliGroupPackages ==
    /\ pc = "cli_group"
    /\ LET CliGrouped(r) ==
               IF r.ok
               THEN dependency_groups' = r.val /\ pc' = "cli_table" /\ UNCHANGED exc
               ELSE exc' = r /\ pc' = "raised" /\ UNCHANGED dependency_groups
       IN  CliGrouped(group_packages_by_dependency_groups(outdated_packages, packages,
                                                          pyproject, packaging))
    /\ calls' = Counted(calls, 0, 0, 1, 0)
    /\ UNCHANGED <<envVars, outdated, packages, direct, specifiers, outdated_packages,
                   console, fdaVars, arg, ret>>

\* The table: its sections are filled and it is printed; every
\* find_direct_ancestors call on the way opens pyproject.toml.
CliPrintTable ==
    /\ pc = "cli_table"
    /\ LET CliPrinted(t) ==
               /\ calls' = Counted(calls, 0, 0, t.searches, 0)
               /\ IF t.result.ok
                  THEN /\ console' = Append(console, TableLine(flags, t.result.val))
                       /\ pc' = "done"
                       /\ UNCHANGED exc
                  ELSE exc' = t.result /\ pc' = "raised" /\ UNCHANGED console
       IN  CliPrinted(TableSections(dependency_groups, packages, specifiers, flags,
                                    pyproject, packaging))
    /\ UNCHANGED <<envVars, outdated, packages, direct, specifiers, outdated_packages,
                   dependency_groups, fdaVars, arg, ret>>

Next ==
    \/ CliGetUvOutdated
    \/ CliGetLockedPackagesAndDeps
    \/ CliGetDirectDependencies
    \/ CliGetPackageSpecifiers
    \/ CliReconcile
    \/ CliReportNone
    \/ CliGroupPackages
    \/ CliPrintTable

Spec == Init /\ [][Next]_vars

\* The names on the list the reconciliation built.
Listed == {outdated_packages[i].name : i \in DOMAIN outdated_packages}

\* C1: the list of qualifying packages holds exactly the names that are
\* keys of both the lock graph and the resolver's report and pass the
\* filter requested (direct-only: keys of the direct set; transitive-only:
\* not keys of it); no name absent from the resolver's report is listed;
\* each name is listed once, with its node, its report entry and is_direct
\* equal to its membership in the direct set.
C1_Reconciliation ==
    pc \in {"cli_report_none", "cli_group", "done"} =>
        /\ Listed = {n \in DOMAIN packages.idx \cap DOMAIN outdated :
                        /\ flags.direct_only => n \in DOMAIN direct
                        /\ flags.transitive_only => n \notin DOMAIN direct}
        /\ Listed \subseteq DOMAIN outdated
        /\ \A i, j \in DOMAIN outdated_packages :
              outdated_packages[i].name = outdated_packages[j].name => i = j
        /\ \A i \in DOMAIN outdated_packages :
              /\ outdated_packages[i].is_direct = (outdated_packages[i].name \in DOMAIN direct)
              /\ outdated_packages[i].pkg = packages.idx[outdated_packages[i].name]
              /\ outdated_packages[i].outdated_pkg = outdated[outdated_packages[i].name]

\* C1 witness: under --transitive a transitive package is listed while a
\* direct package that is locked and outdated is left out, and the resolver
\* also reported a name that is not locked.
C1_Witness ==
    /\ pc = "cli_group"
    /\ flags.transitive_only /\ ~flags.direct_only
    /\ Listed # {}
    /\ (DOMAIN packages.idx \cap DOMAIN outdated \cap DOMAIN direct) # {}
    /\ DOMAIN outdated \ DOMAIN packages.idx # {}

\* The error is a configuration error whose message names the file.
NamesFile(e, file) == ~e.ok /\ e.exc = "RuntimeError" /\ file \in Range(e.msg)

\* C8: with uv.lock missing or unparseable get_locked_packages_and_deps
\* raises a configuration error naming uv.lock and hands over no graph;
\* with pyproject.toml missing or unparseable get_direct_dependencies raises
\* one naming pyproject.toml; the step of cli that makes the call ends with
\* that error raised, the error printed and no list of rows built.
C8_ConfigErrors ==
    [][
        /\ (pc = "cli_packages" /\ lock.status # "ok") =>
              /\ NamesFile(get_locked_packages_and_deps(lock, site, packaging), "uv.lock")
              /\ pc' = "raised"
              /\ exc' = get_locked_packages_and_deps(lock, site, packaging)
              /\ packages' = NoVal
              /\ console' = <<ErrorLine(exc')>>
              /\ outdated_packages' = NoVal
        /\ (pc = "cli_direct" /\ pyproject.status # "ok") =>
              /\ NamesFile(get_direct_dependencies(pyproject, packaging), "pyproject.toml")
              /\ pc' = "raised"
              /\ exc' = get_direct_dependencies(pyproject, packaging)
              /\ direct' = NoVal
              /\ console' = <<ErrorLine(exc')>>
              /\ outdated_packages' = NoVal
    ]_vars

\* The resolver's output is a JSON list of {name, version, latest_version}.
IsRecordList(v) ==
    /\ v.t = "list"
    /\ \A i \in DOMAIN v.items :
          /\ v.items[i].t = "object"
          /\ \A f \in OutdatedPkgFields :
                f \in DOMAIN v.items[i].fields /\ v.items[i].fields[f].t = "string"

\* Nonzero exit status, or output that is malformed content.
ResolverFailed(u) ==
    u.returncode # 0 \/ ~u.stdout.json \/ ~IsRecordList(u.stdout.value)

\* C9: on any resolver failure get_uv_outdated returns the empty mapping
\* without raising, and an invocation that then finishes reports zero
\* outdated packages together with the number of locked packages.
C9_ResolverFailureRecovered ==
    (ResolverFailed(uv) /\ pc # "cli_outdated") =>
        /\ get_uv_outdated(uv) = Ok(EmptyDict)
        /\ pc # "raised" \/ exc # get_uv_outdated(uv)
        /\ pc = "done" =>
              console = <<[line |-> "No outdated packages found."],
                          [line |-> "Note: Could not check for outdated packages (no virtual environment)."],
                          [line |-> "Total packages in uv.lock: ", count |-> Len(packages.keys)]>>

\* C14: during one invocation of cli the resolver is run at most once, the
\* metadata provider is called at most once, and pyproject.toml and
\* uv.lock are each opened at most once.
C14_CalledAtMostOnce ==
    /\ calls.resolver <= 1
    /\ calls.metadata <= 1
    /\ calls.manifest <= 1
    /\ calls.lockfile <= 1

(***************************************************************************)
(* group_packages_by_dependency_groups applied to the qualifying lists of  *)
(* generated lockfiles, manifests and resolver reports.                    *)
(***************************************************************************)
\* Manifests with extras and dependency groups: a name declared once, in
\* two lists, in an extra and a dependency group of the same name, without
\* a [project] table, and a requirement string that does not parse.
GroupManifests ==
    {GroupManifest(<< <<"A", ">", "=", "1", ".", "0">> >>, <<Group(ge, <<nb>>)>>,
                   <<Group(gd, <<nc>>)>>),
     GroupManifest(<<na, nb>>, <<>>, <<Group(gd, <<na>>)>>),
     GroupManifest(<<>>, <<Group(ge, <<na>>)>>, <<Group(gd, <<na, nc>>)>>),
     GroupManifest(<<>>, <<Group(ge, <<na>>)>>, <<Group(ge, <<nb>>)>>),
     [GroupManifest(<<na>>, <<>>, <<Group(gd, <<nb>>)>>) EXCEPT !.has_project = FALSE],
     Manifest(<<>>), Manifest(<<nc>>), Manifest(<<na, <<"b", ">">> >>),
     MissingManifest, MalformedManifest, UndecodableManifest}

\* The resolver's record for a locked package.
Reported(name) == [name |-> name, version |-> V10, latest_version |-> V20]

\* The direct-dependency set of a manifest, empty when it cannot be had.
DirectOf(pp, rel) ==
    IF get_direct_dependencies(pp, rel).ok THEN get_direct_dependencies(pp, rel).val ELSE EmptyDict

InitGroups ==
    /\ packaging = EitherRelease
    /\ lock \in {LockOfDeps(d) : d \in DepChoices}
    /\ site = NoPython
    /\ pyproject \in GroupManifests
    /\ packages = get_locked_packages_and_deps(lock, site, packaging).val
    /\ outdated \in {[n \in S |-> Reported(n)] : S \in (SUBSET Nodes) \ {{}}}
    /\ direct = DirectOf(pyproject, packaging)
    /\ flags = NoFilters
    /\ outdated_packages = OutdatedPackages(packages, outdated, direct, flags)
    /\ pc = "group_call"
    /\ ret = NoVal /\ exc = NoVal
    /\ uv = NoVal /\ specifiers = NoVal /\ console = NoVal /\ arg = NoVal
    /\ dependency_groups = NoVal /\ calls = NoVal
    /\ target = NoVal /\ queue = NoVal /\ visited = NoVal /\ ancestors = NoVal

\* One call: it returns the buckets, or it raises.
GroupCall ==
    /\ pc = "group_call"
    /\ LET GroupResult(r) ==
               IF r.ok
               THEN ret' = r /\ pc' = "done" /\ UNCHANGED exc
               ELSE exc' = r /\ pc' = "raised" /\ UNCHANGED ret
       IN  GroupResult(group_packages_by_dependency_groups(outdated_packages, packages,
                                                            pyproject, packaging))
    /\ UNCHANGED <<envVars, cliVars, fdaVars, arg>>

NextGroups == GroupCall

SpecGroups == InitGroups /\ [][NextGroups]_vars

\* The canonical names the manifest declares in the lists named g.
DeclaredIn(pp, g, rel) ==
    IF pp.status # "ok" THEN {}
    ELSE UNION {{canonicalize_name(Requirement(l.deps[i], rel).val.name) : i \in DOMAIN l.deps} :
                    l \in {m \in Range(ManifestGroups(pp)) : m.name = g}}

\* The names of the lists the manifest declares.
DeclaredGroups(pp) == {l.name : l \in Range(ManifestGroups(pp))}

\* The tuple t is in the bucket g of the result.
InBucket(g, t) == g \in DOMAIN ret.val /\ t \in Range(ret.val[g])

\* The buckets one package with the grouping names `names` belongs in: the
\* groups declaring one of the names, the main bucket if there is none.
BucketsFor(pp, names, rel) ==
    IF {g \in DeclaredGroups(pp) : names \cap DeclaredIn(pp, g, rel) # {}} = {} THEN {<<>>}
    ELSE {g \in DeclaredGroups(pp) : names \cap DeclaredIn(pp, g, rel) # {}}

\* C11: every direct qualifying package is in the bucket of every manifest
\* group that declares its name, in no other bucket, and in the main bucket
\* "" only if the main list declares it or no group does.
C11_DirectBuckets ==
    pc = "done" =>
        \A i \in DOMAIN outdated_packages :
            outdated_packages[i].is_direct =>
                \A g \in DeclaredGroups(pyproject) \cup DOMAIN ret.val \cup {<<>>} :
                    InBucket(g, outdated_packages[i])
                        <=> g \in BucketsFor(pyproject, {outdated_packages[i].name}, packaging)

\* The membership sets the grouping step has built from the manifest.
MembershipSets == dependency_groups_from_toml(pyproject, packaging).val

\* C23: the keys of the direct set are exactly the declared canonical names,
\* every declared name is a member of the membership set of each list name
\* that declares it, and so a name is direct iff some membership set holds it.
C23_DirectIffMember ==
    (pc = "done" /\ pyproject.status = "ok") =>
        /\ DOMAIN direct = UNION {DeclaredIn(pyproject, g, packaging) : g \in DeclaredGroups(pyproject)}
        /\ \A g \in DeclaredGroups(pyproject) :
               \A n \in DeclaredIn(pyproject, g, packaging) :
                   g \in DOMAIN MembershipSets /\ n \in MembershipSets[g]
        /\ \A n \in DOMAIN direct \cup UNION Range([g \in DOMAIN MembershipSets |-> MembershipSets[g]]) :
               n \in DOMAIN direct <=> \E g \in DOMAIN MembershipSets : n \in MembershipSets[g]

\* b is list with some entries left out: its entries are entries of list, each
\* taken once, in the order of list.
IsSubsequence(b, list) ==
    \E f \in [DOMAIN b -> DOMAIN list] :
        /\ \A k \in DOMAIN b : b[k] = list[f[k]]
        /\ \A k \in DOMAIN b : \A l \in DOMAIN b : k < l => f[k] < f[l]

\* C27: the grouping loses and invents nothing: every package of the input
\* list is in at least one bucket, and every bucket is a non-empty selection
\* of the input list, each entry once and in the order of the input list.
C27_Lossless ==
    pc = "done" =>
        /\ \A i \in DOMAIN outdated_packages :
               \E g \in DOMAIN ret.val : InBucket(g, outdated_packages[i])
        /\ \A g \in DOMAIN ret.val :
               ret.val[g] # <<>> /\ IsSubsequence(ret.val[g], outdated_packages)

\* C27 witness: of three packages grouped one is in two buckets, one bucket
\* holds two packages and leaves out the one between them in the input list,
\* and the main bucket holds a package that no group declares.
C27_Witness ==
    /\ pc = "done" /\ pyproject.status = "ok"
    /\ Len(outdated_packages) = 3
    /\ \E g \in DOMAIN ret.val : \E h \in DOMAIN ret.val :
          g # h /\ Range(ret.val[g]) \cap Range(ret.val[h]) # {}
    /\ \E g \in DOMAIN ret.val :
          ret.val[g] = <<outdated_packages[1], outdated_packages[3]>>
    /\ \E t \in Range(outdated_packages) :
          InBucket(<<>>, t) /\ BucketsFor(pyproject, GroupingNames(packages, t), packaging) = {<<>>}

\* C12: every transitive qualifying package is in the bucket of exactly
\* the manifest groups that declare one of its immediate dependents, and in
\* the main bucket "" when none of them is declared in a group.
C12_TransitiveBuckets ==
    pc = "done" =>
        \A i \in DOMAIN outdated_packages :
            ~outdated_packages[i].is_direct =>
                \A g \in DeclaredGroups(pyproject) \cup DOMAIN ret.val \cup {<<>>} :
                    InBucket(g, outdated_packages[i])
                        <=> g \in BucketsFor(pyproject,
                                             DependentNames(packages, outdated_packages[i].name), packaging)

(***************************************************************************)
(* generate_grouped_rows and generate_normal_rows applied to the           *)
(* qualifying lists of generated lockfiles, manifests and reports.         *)
(*                                                                         *)
(* After generate_grouped_rows ret holds its locals `groups` and           *)
(* `direct_dependencies_with_groups` with the rows it yielded.             *)
(***************************************************************************)
\* a depends on b in its main list and under its extra "x"; c depends on b.
TwoGroupLock ==
    LockFile(<<[Pkg(na, V10, <<Dep(nb)>>)
                   EXCEPT !.optional = <<[extra |-> <<"x">>, deps |-> <<Dep(nb)>>]>>],
               Pkg(nb, V10, <<>>), Pkg(nc, V10, <<Dep(nb)>>)>>)

\* Manifests declaring nothing, a, c, a and c; and no manifest.
RowManifests ==
    {Manifest(<<>>), Manifest(<<na>>), Manifest(<<nc>>), Manifest(<<na, nc>>),
     MissingManifest, UndecodableManifest}

InitRows ==
    /\ packaging = EitherRelease
    /\ lock \in {LockOfDeps(d) : d \in DepChoices} \cup {TwoGroupLock}
    /\ site = NoPython
    /\ pyproject \in RowManifests
    /\ packages = get_locked_packages_and_deps(lock, site, packaging).val
    /\ specifiers = get_package_specifiers(lock, site, packaging).val
    /\ outdated \in {[n \in S |-> Reported(n)] : S \in (SUBSET Nodes) \ {{}}}
    /\ direct = DirectOf(pyproject, packaging)
    /\ flags \in {[NoFilters EXCEPT !.group_by_ancestor = g] : g \in BOOLEAN}
    /\ outdated_packages = OutdatedPackages(packages, outdated, direct, flags)
    /\ pc = "rows_call"
    /\ ret = NoVal /\ exc = NoVal
    /\ uv = NoVal /\ console = NoVal /\ arg = NoVal
    /\ dependency_groups = NoVal /\ calls = NoVal
    /\ target = NoVal /\ queue = NoVal /\ visited = NoVal /\ ancestors = NoVal

\* `for row in generate_grouped_rows(group_packages, packages, specifiers, show_why)`
GroupedRowsCall ==
    /\ pc = "rows_call"
    /\ flags.group_by_ancestor
    /\ LET GroupedResult(b, rows) ==
               IF rows.ok
               THEN /\ ret' = Ok([groups |-> b.val.groups,
                                  direct_dependencies_with_groups |-> b.val.with_groups,
                                  rows |-> rows.val])
                    /\ pc' = "done"
                    /\ UNCHANGED exc
               ELSE exc' = rows /\ pc' = "raised" /\ UNCHANGED ret
       IN  GroupedResult(AncestorGroups(outdated_packages, packages, pyproject, packaging),
                         generate_grouped_rows(outdated_packages, packages, specifiers,
                                               flags.show_why, pyproject, packaging))
    /\ UNCHANGED <<envVars, cliVars, fdaVars, arg>>

\* `for row in generate_normal_rows(group_packages, specifiers, show_why)`
NormalRowsCall ==
    /\ pc = "rows_call"
    /\ ~flags.group_by_ancestor
    /\ LET NormalResult(rows) ==
               IF rows.ok
               THEN ret' = rows /\ pc' = "done" /\ UNCHANGED exc
               ELSE exc' = rows /\ pc' = "raised" /\ UNCHANGED ret
       IN  NormalResult(generate_normal_rows(outdated_packages, packages, specifiers,
                                             flags.show_why, packaging))
    /\ UNCHANGED <<envVars, cliVars, fdaVars, arg>>

NextRows == GroupedRowsCall \/ NormalRowsCall

SpecRows == InitRows /\ [][NextRows]_vars

\* The keys of the buckets that hold the tuple t.
BucketsHolding(t) == {k \in DOMAIN ret.val.groups : t \in Range(ret.val.groups[k])}

\* What find_direct_ancestors returns for the package name.
AncestorsFound(name, rel) == find_direct_ancestors(name, packages, pyproject, rel).val

\* C13: after the bucketing loop of generate_grouped_rows a direct package
\* is in the bucket keyed by its own name; a transitive package is in the
\* bucket of every ancestor find_direct_ancestors returns, and each of
\* these is flagged; a transitive package without ancestor is in the
\* unknown-ancestor bucket only; every flagged ancestor is a bucket key.
C13_AncestorBuckets ==
    (pc = "done" /\ flags.group_by_ancestor) =>
        /\ \A i \in DOMAIN outdated_packages :
              IF outdated_packages[i].is_direct
              THEN BucketsHolding(outdated_packages[i]) = {outdated_packages[i].name}
              ELSE IF AncestorsFound(outdated_packages[i].name, packaging) = {}
              THEN BucketsHolding(outdated_packages[i]) = {UnknownKey}
              ELSE /\ BucketsHolding(outdated_packages[i])
                        = AncestorsFound(outdated_packages[i].name, packaging)
                   /\ AncestorsFound(outdated_packages[i].name, packaging)
                        \subseteq ret.val.direct_dependencies_with_groups
        /\ ret.val.direct_dependencies_with_groups \subseteq DOMAIN ret.val.groups

\* C13 witness: a depends on b, a is the one direct dependency and both
\* are outdated: b is in a's bucket behind a, and a is flagged.
C13_Witness ==
    /\ pc = "done" /\ flags.group_by_ancestor
    /\ DependentNames(packages, nb) = {na} /\ DependentNames(packages, na) = {}
    /\ DOMAIN direct = {na}
    /\ {na, nb} \subseteq DOMAIN outdated
    /\ na \in DOMAIN ret.val.groups
    /\ Len(ret.val.groups[na]) = 2
    /\ ret.val.groups[na][1].name = na /\ ret.val.groups[na][2].name = nb
    /\ na \in ret.val.direct_dependencies_with_groups

\* The rows the call yielded.
RowsYielded == IF flags.group_by_ancestor THEN ret.val.rows ELSE ret.val

\* The forms the name cell of a package row takes.
NameCells(name) ==
    {Markup("cyan", name), <<" ", " ">> \o Markup("cyan", name),
     <<" ", " ">> \o Markup("italic cyan", name)}

\* The names listed in a Dependents cell, in order.
NamesListed(cell) == IF cell = <<>> THEN <<>> ELSE SplitText(cell, <<",", " ">>)

\* The entries of the bucket k that are not direct, in bucket order.
TransitiveMembers(k) == SelectSeq(ret.val.groups[k], LAMBDA t : ~t.is_direct)

\* The row at position p is the header of the flagged bucket k: the one row
\* named k without indent, with empty cells iff k is not in the input list,
\* and the rows after it are those of the transitive members and no more.
IsHeaderOf(p, k) ==
    /\ ret.val.rows[p][1] = Markup("cyan", k)
    /\ \A q \in DOMAIN ret.val.rows : ret.val.rows[q][1] = Markup("cyan", k) => q = p
    /\ (\A c \in 2..Len(ret.val.rows[p]) : ret.val.rows[p][c] = <<>>)
          <=> ~\E t \in Range(outdated_packages) : t.name = k
    /\ p + Len(TransitiveMembers(k)) <= Len(ret.val.rows)
    /\ \A j \in DOMAIN TransitiveMembers(k) :
          ret.val.rows[p + j][1]
              = <<" ", " ">> \o Markup("italic cyan", TransitiveMembers(k)[j].name)
    /\ p + Len(TransitiveMembers(k)) < Len(ret.val.rows) =>
          \A n \in Nodes :
              ret.val.rows[p + Len(TransitiveMembers(k)) + 1][1]
                  # <<" ", " ">> \o Markup("italic cyan", n)

\* C28: in the rows grouped by ancestor every flagged ancestor bucket gives
\* exactly one header row, the ancestor's own package row if it is in the
\* input list and a name-only row otherwise, followed by one row for each of
\* its transitive members; every input package is named in some row; and a
\* bucket whose key is not flagged holds one entry, the direct package itself.
C28_AncestorHeaders ==
    (pc = "done" /\ flags.group_by_ancestor) =>
        /\ \A k \in ret.val.direct_dependencies_with_groups :
               \E p \in DOMAIN ret.val.rows : IsHeaderOf(p, k)
        /\ \A i \in DOMAIN outdated_packages :
               \E r \in DOMAIN ret.val.rows :
                   ret.val.rows[r][1] \in NameCells(outdated_packages[i].name)
        /\ \A k \in DOMAIN ret.val.groups :
               (k # UnknownKey /\ k \notin ret.val.direct_dependencies_with_groups) =>
                   /\ Len(ret.val.groups[k]) = 1
                   /\ ret.val.groups[k][1].is_direct
                   /\ ret.val.groups[k][1].name = k

\* C28 witness: a direct dependency that is not in the input list heads, as a
\* name-only row, the rows of its two transitive members.
C28_Witness ==
    /\ pc = "done" /\ flags.group_by_ancestor
    /\ \E k \in ret.val.direct_dependencies_with_groups :
          /\ ~\E t \in Range(outdated_packages) : t.name = k
          /\ Len(TransitiveMembers(k)) = 2
          /\ \E p \in DOMAIN ret.val.rows : IsHeaderOf(p, k)

\* C19: in the row of an outdated package the Dependents cell is empty for
\* a direct package and lists, for a transitive package, exactly the names
\* of the packages on its Dependent edges, each name once.
C19_RowDependents ==
    pc = "done" =>
        \A i \in DOMAIN outdated_packages : \A r \in DOMAIN RowsYielded :
            RowsYielded[r][1] \in NameCells(outdated_packages[i].name) =>
                IF outdated_packages[i].is_direct THEN RowsYielded[r][5] = <<>>
                ELSE /\ Range(NamesListed(RowsYielded[r][5]))
                          = DependentNames(packages, outdated_packages[i].name)
                     /\ Len(NamesListed(RowsYielded[r][5]))
                          = Cardinality(DependentNames(packages, outdated_packages[i].name))

\* C19 witness: b is transitive and outdated; a depends on it through its
\* main list and through an extra, c through its main list: three Dependent
\* edges and the cell "a, c"; the direct package c shows no dependents.
C19_Witness ==
    /\ pc = "done" /\ ~flags.group_by_ancestor
    /\ lock = TwoGroupLock
    /\ DOMAIN direct = {nc}
    /\ DOMAIN outdated = {nb, nc}
    /\ Len(packages.objs[packages.idx[nb]].dependents) = 3
    /\ \E r \in DOMAIN ret.val :
          /\ ret.val[r][1] = Markup("cyan", nb)
          /\ ret.val[r][5] = <<"a", ",", " ", "c">>
    /\ \E r \in DOMAIN ret.val :
          ret.val[r][1] = Markup("cyan", nc) /\ ret.val[r][5] = <<>>

(***************************************************************************)
(* get_package_specifiers applied to generated lockfiles and environments. *)
(***************************************************************************)
\* Most requires-dist items of one lockfile entry or one installed package.
MaxReqs == 2

gx == <<"x">>

\* extra == 'x'
MarkerX == <<"e", "x", "t", "r", "a", " ", "=", "=", " ", "'", "x", "'">>

\* python_version < '3'
MarkerPy == <<"p", "y", "t", "h", "o", "n", "_", "v", "e", "r", "s", "i", "o", "n", " ", "<", " ", "'", "3", "'">>

ReqItem(name, specifier, marker) ==
    [dict |-> TRUE, name |-> name, specifier |-> specifier, marker |-> marker]

\* requires-dist items of a lockfile entry: b>=1.0, b==2.0 under the extra
\* x, c<2.0 for old interpreters, and a bare string.
LockReqItems ==
    {ReqItem(nb, <<">", "=", "1", ".", "0">>, <<>>), ReqItem(nb, <<"=", "=", "2", ".", "0">>, MarkerX), ReqItem(nc, <<"<", "2", ".", "0">>, MarkerPy),
     BareDep(nb)}

\* Requires-Dist lines of an installed package: the same three, and
\* c==1.0 under the extra y.
SiteReqTexts ==
    {<<"b", ">", "=", "1", ".", "0">>,
     <<"b", "=", "=", "2", ".", "0", ";", " ", "e", "x", "t", "r", "a", " ", "=", "=", " ", "'", "x", "'">>,
     <<"c", "<", "2", ".", "0", ";", " ", "p", "y", "t", "h", "o", "n", "_", "v", "e", "r", "s", "i", "o", "n", " ", "<", " ", "'", "3", "'">>,
     <<"c", "=", "=", "1", ".", "0", ";", " ", "e", "x", "t", "r", "a", " ", "=", "=", " ", "\"", "y", "\"">>}

\* Two entries constrain b: "A" with b>=1.0, then b with b==2.0.
TwoEntryLock ==
    LockFile(<<[Pkg(nA, V10, <<Dep(nb)>>) EXCEPT
                    !.requires_dist = <<ReqItem(nb, <<">", "=", "1", ".", "0">>, <<>>)>>],
               [Pkg(nb, V10, <<>>) EXCEPT
                    !.requires_dist = <<ReqItem(nb, <<"=", "=", "2", ".", "0">>, MarkerX)>>]>>)

\* Two installed packages constrain b: "A" with b<2.0, then c with
\* b>=1.0,<2.1, which str(req.specifier) gives as <2.1,>=1.0.
TwoDistSite ==
    [Installed EXCEPT !.dists =
        <<[Name |-> nA, Version |-> V10, Summary |-> <<"S">>,
           Requires_Dist |-> << <<"b", "<", "2", ".", "0">> >>],
          [Name |-> nc, Version |-> V10, Summary |-> <<>>,
           Requires_Dist |-> << <<"b", ">", "=", "1", ".", "0", ",", "<", "2", ".", "1">> >>]>>]

\* "A" with the extras ex installed and the requires-dist items rd; b.
SpecifierLocks ==
    {LockFile(<<[Pkg(nA, V10, <<Dep(nb)>>) EXCEPT !.extra = ex, !.requires_dist = rd],
                Pkg(nb, V10, <<>>)>>) :
        ex \in SUBSET {gx}, rd \in DistinctListsOf(LockReqItems, MaxReqs)}
    \cup {MissingLock, MalformedLock, UndecodableLock, TwoEntryLock}

\* No interpreter, "A" installed with the Requires-Dist lines rd, the two
\* installed packages, or "A" installed with the line b>=1.0,>=1.
SpecifierSites ==
    {NoPython}
    \cup {[Installed EXCEPT !.dists = <<[Name |-> nA, Version |-> V10, Summary |-> <<"S">>,
                                        Requires_Dist |-> rd]>>] :
            rd \in DistinctListsOf(SiteReqTexts, MaxReqs)}
    \cup {TwoDistSite, InstalledRepeated}

InitSpecifiers ==
    /\ packaging \in PackagingReleases
    /\ lock \in SpecifierLocks
    /\ site \in SpecifierSites
    /\ pc = "specifiers_call"
    /\ specifiers = NoVal /\ ret = NoVal /\ exc = NoVal
    /\ uv = NoVal /\ pyproject = NoVal /\ flags = NoVal
    /\ outdated = NoVal /\ packages = NoVal /\ direct = NoVal
    /\ outdated_packages = NoVal /\ console = NoVal /\ arg = NoVal
    /\ dependency_groups = NoVal /\ calls = NoVal
    /\ target = NoVal /\ queue = NoVal /\ visited = NoVal /\ ancestors = NoVal

\* One call: it returns the index, or it raises.
SpecifiersCall ==
    /\ pc = "specifiers_call"
    /\ LET SpecifiersResult(r) ==
               IF r.ok
               THEN specifiers' = r.val /\ pc' = "done" /\ UNCHANGED exc
               ELSE exc' = r /\ pc' = "raised" /\ UNCHANGED specifiers
       IN  SpecifiersResult(get_package_specifiers(lock, site, packaging))
    /\ UNCHANGED <<envVars, outdated, packages, direct, outdated_packages, dependency_groups,
                   calls, console, fdaVars, arg, ret>>

NextSpecifiers == SpecifiersCall

SpecSpecifiers == InitSpecifiers /\ [][NextSpecifiers]_vars

\* The extras uv.lock records as installed for the package `owner`.
InstalledFor(owner) ==
    UNION {lock.package[i].extra :
             i \in {j \in DOMAIN lock.package : EntryName(lock.package, j) = owner}}

\* The marker text makes the requirement conditional on an extra that is
\* not installed for `owner`.
UnderMissingExtra(marker_text, owner) ==
    LET OnMissing(item, installed) ==
            /\ item.lhs.variable /\ item.lhs.value = <<"e", "x", "t", "r", "a">>
            /\ item.op = <<"=", "=">>
            /\ item.rhs.value \notin installed
        SomeMissing(m, installed) ==
            m.ok /\ \E i \in DOMAIN m.val.items : OnMissing(m.val.items[i], installed)
    IN  marker_text # <<>> /\ SomeMissing(Marker(marker_text), InstalledFor(owner))

\* The text after ";" of a Requires-Dist line, empty if there is none.
MarkerTextOf(line) ==
    IF IndexOf(line, ";") = 0 THEN <<>>
    ELSE SubSeq(line, IndexOf(line, ";") + 1, Len(line))

\* The constraint `spec` on `name` is declared by a requires-dist item of
\* uv.lock that is not under a missing extra.
DeclaredByLock(name, spec) ==
    lock.status = "ok" /\
    \E i \in DOMAIN lock.package : \E k \in DOMAIN lock.package[i].requires_dist :
        /\ lock.package[i].requires_dist[k].dict
        /\ canonicalize_name(lock.package[i].requires_dist[k].name) = name
        /\ lock.package[i].requires_dist[k].specifier = spec
        /\ ~UnderMissingExtra(lock.package[i].requires_dist[k].marker,
                              EntryName(lock.package, i))

\* The same for a Requires-Dist line of an installed package.
DeclaredBySite(name, spec, rel) ==
    \E i \in DOMAIN site.dists : \E k \in DOMAIN site.dists[i].Requires_Dist :
        /\ Requirement(site.dists[i].Requires_Dist[k], rel).ok
        /\ canonicalize_name(Requirement(site.dists[i].Requires_Dist[k], rel).val.name) = name
        /\ Requirement(site.dists[i].Requires_Dist[k], rel).val.specifier = spec
        /\ ~UnderMissingExtra(MarkerTextOf(site.dists[i].Requires_Dist[k]),
                              canonicalize_name(site.dists[i].Name))

\* The constraints uv.lock declares in metadata.requires-dist, in file order.
LockDeclared ==
    LET ItemsOf(rd) == [k \in DOMAIN rd |-> [name |-> canonicalize_name(rd[k].name),
                                             spec |-> rd[k].specifier]]
    IN  Concat([i \in DOMAIN lock.package |->
            ItemsOf(SelectSeq(lock.package[i].requires_dist,
                              LAMBDA r : r.dict /\ r.name # <<>> /\ r.specifier # <<>>))])

\* The constraints the installed packages declare, in the order the packages
\* are read, those under an extra that is not installed left out; none when
\* the installed metadata cannot be had.
SiteDeclared ==
    LET Read(lines) ==
            [k \in DOMAIN lines |-> [req |-> Requirement(lines[k], packaging),
                                     marker |-> MarkerTextOf(lines[k])]]
        Constraining(owner, line) ==
            /\ line.req.ok
            /\ line.req.val.specifier # <<>>
            /\ ~UnderMissingExtra(line.marker, owner)
        LinesOf(lines) ==
            [k \in DOMAIN lines |-> [name |-> canonicalize_name(lines[k].req.val.name),
                                     spec |-> lines[k].req.val.specifier]]
        DeclaredLines(owner, lines) ==
            LinesOf(SelectSeq(lines, LAMBDA l : Constraining(owner, l)))
    IN  IF ~get_site_packages_from_uv(site).ok THEN <<>>
        ELSE Concat([i \in DOMAIN site.dists |->
                DeclaredLines(canonicalize_name(site.dists[i].Name),
                              Read(site.dists[i].Requires_Dist))])

\* Every constraint declared, in the order get_package_specifiers meets them.
AllDeclared == LockDeclared \o SiteDeclared

\* The position in the list decl of the last constraint on the name n.
LastDeclared(decl, n) ==
    CHOOSE i \in DOMAIN decl :
        decl[i].name = n /\ \A j \in DOMAIN decl : decl[j].name = n => j <= i

\* C29: the specifier index holds, for every name some declaration
\* constrains, the one constraint met last: installed metadata after
\* uv.lock, a later package after an earlier one; and is_locked_by_specifier
\* judges a candidate by that constraint alone.
C29_LastWriterWins ==
    pc = "done" =>
        LET JudgedAs(n, clauses) ==
                \A v \in {V10, V11, V20} :
                    is_locked_by_specifier(specifiers, n, v, packaging)
                        = Ok(~SpecifierSetContains(clauses, Version(v).val, packaging))
            JudgedBy(n, spec) == specifiers[n] = spec /\ JudgedAs(n, SpecifierSet(spec).val)
            LastWins(decl) ==
                /\ DOMAIN specifiers = {decl[i].name : i \in DOMAIN decl}
                /\ \A n \in DOMAIN specifiers :
                       JudgedBy(n, decl[LastDeclared(decl, n)].spec)
        IN  LastWins(AllDeclared)

\* C29 witness: uv.lock and two installed packages constrain b in four
\* ways; the index holds the constraint of the package read last, as
\* str(req.specifier) writes it, and the version 1.0 is not locked although
\* an earlier constraint rejects it.
C29_Witness ==
    /\ pc = "done"
    /\ lock = TwoEntryLock /\ site = TwoDistSite
    /\ Cardinality({AllDeclared[i].spec :
                        i \in {j \in DOMAIN AllDeclared : AllDeclared[j].name = nb}}) = 4
    /\ specifiers[nb] = SiteDeclared[2].spec
    /\ specifiers[nb] = <<"<", "2", ".", "1", ",", ">", "=", "1", ".", "0">>
    /\ is_locked_by_specifier(specifiers, nb, V10, packaging) = Ok(FALSE)
    /\ \E i \in DOMAIN AllDeclared :
          /\ AllDeclared[i].name = nb
          /\ ~SpecifierSetContains(SpecifierSet(AllDeclared[i].spec).val, Version(V10).val, packaging)

\* C20: get_package_specifiers only takes constraints from installed
\* extras: every constraint of the index it returns is declared by a
\* requirement that is not conditional on an extra missing from the extras
\* uv.lock records for the declaring package; a constraint declared only
\* under a non-installed extra is not in the index.
C20_OnlyInstalledExtras ==
    pc = "done" =>
        \A n \in DOMAIN specifiers :
            DeclaredByLock(n, specifiers[n]) \/ DeclaredBySite(n, specifiers[n], packaging)

(***************************************************************************)
(* Spelled names through one invocation                                    *)
(*                                                                         *)
(* One package is named in uv.lock, in the resolver's report, in           *)
(* pyproject.toml, in the installed metadata and in a dependency           *)
(* declaration of the locked package "c", each time in a spelling of its   *)
(* own; arg records which project each spelling belongs to.                *)
(***************************************************************************)
Spelled(project, text) == [project |-> project, text |-> text]

\* Three spellings of the project a-b and one of the project ab.
Spellings ==
    {Spelled(1, <<"a", "_", "b">>), Spelled(1, <<"A", ".", "B">>),
     Spelled(1, <<"a", "-", "-", "B">>), Spelled(2, <<"a", "b">>)}

\* The canonical name of each project, written out.
CanonicalOf(project) == IF project = 1 THEN <<"a", "-", "b">> ELSE <<"a", "b">>

\* The shapes of a dependency declaration of uv.lock:  {name = "X"},  "X",
\* "X==1.0",  "X >=1.0"  and  "X>=1.0".
DeclarationForms == {"table", "bare", "pinned", "spaced", "bounded"}

Declaration(text, form) ==
    CASE form = "table"   -> Dep(text)
      [] form = "bare"    -> BareDep(text)
      [] form = "pinned"  -> BareDep(text \o <<"=", "=", "1", ".", "0">>)
      [] form = "spaced"  -> BareDep(text \o <<" ", ">", "=", "1", ".", "0">>)
      [] form = "bounded" -> BareDep(text \o <<">", "=", "1", ".", "0">>)

SpelledSite(text) ==
    [Installed EXCEPT !.dists =
        <<[Name |-> text, Version |-> V10, Summary |-> <<"S">>, Requires_Dist |-> <<>>],
          [Name |-> nc, Version |-> V11, Summary |-> <<>>,
           Requires_Dist |-> <<text \o <<">", "=", "1", ".", "0">> >>]>>]

InitNames ==
    /\ packaging = EitherRelease
    /\ arg \in [lock : Spellings, report : Spellings, manifest : Spellings,
                site : Spellings, dep : Spellings, form : DeclarationForms]
    /\ lock = LockFile(<<Pkg(arg.lock.text, V10, <<>>),
                         Pkg(nc, V11, <<Declaration(arg.dep.text, arg.form)>>)>>)
    /\ uv \in {[returncode |-> 2, stdout |-> NotJson],
               [returncode |-> 0,
                stdout |-> Stdout(JList(<<ResolverItem(arg.report.text, V10, V20)>>))]}
    /\ pyproject = Manifest(<<arg.manifest.text>>)
    /\ site = SpelledSite(arg.site.text)
    /\ flags = NoFilters
    /\ pc = "cli_outdated"
    /\ console = <<>>
    /\ calls = NoCalls
    /\ outdated = NoVal /\ packages = NoVal /\ direct = NoVal /\ specifiers = NoVal
    /\ outdated_packages = NoVal /\ dependency_groups = NoVal
    /\ exc = NoVal /\ ret = NoVal
    /\ target = NoVal /\ queue = NoVal /\ visited = NoVal /\ ancestors = NoVal

SpecNames == InitNames /\ [][Next]_vars

\* The four indices are built and reconciled.
Joined == pc \in {"cli_report_none", "cli_group", "cli_table", "done"}

\* The package named in two places is the same project.
SameProject(x, y) == x.project = y.project

\* C24: every join is on canonical names: the graph, the report, the direct
\* set, the specifier index and the installed metadata are keyed by the
\* canonical name of the project whatever its spelling, a dependency
\* declaration of either shape resolves to the node of its project, so two
\* spellings of one project always meet and no step fails; canonicalizing a
\* canonical name changes nothing.
C24_CanonicalJoins ==
    /\ pc # "raised"
    /\ \A s \in Spellings :
          /\ canonicalize_name(s.text) = CanonicalOf(s.project)
          /\ canonicalize_name(canonicalize_name(s.text)) = canonicalize_name(s.text)
    /\ Joined =>
          /\ packages.keys = <<CanonicalOf(arg.lock.project), nc>>
          /\ uv.returncode = 0 => DOMAIN outdated = {CanonicalOf(arg.report.project)}
          /\ DOMAIN direct = {CanonicalOf(arg.manifest.project)}
          /\ CanonicalOf(arg.site.project) \in DOMAIN specifiers
          /\ packages.objs[1].summary = <<"S">> <=> SameProject(arg.site, arg.lock)
          /\ (\E d \in Range(packages.objs[1].dependents) : d.package = 2)
                <=> SameProject(arg.dep, arg.lock)
          /\ (\E t \in Range(outdated_packages) : t.name = CanonicalOf(arg.lock.project))
                <=> (uv.returncode = 0 /\ SameProject(arg.report, arg.lock))
          /\ \A t \in Range(outdated_packages) :
                t.is_direct <=> SameProject(arg.manifest, arg.lock)

====
